---- MODULE Spec2Model ----
(***************************************************************************)
(* A model of the stimulus code generator: the function descriptor of      *)
(* stimulus/model/functions.py (merge, derived parameter map and order),   *)
(* the generator engine of stimulus/generators/base.py (catalog, ignore    *)
(* memo, block-based and single-block composition), the per-function       *)
(* rendering of the R and R/C generators of stimulus/generators/r.py, the  *)
(* scanner and parser of stimulus/lexer.py and stimulus/parser.py, the     *)
(* parameter grammar of stimulus/model/parameters.py, main() of            *)
(* stimulus/__main__.py, the shell generator of                            *)
(* stimulus/generators/shell.py and the typed Python generator of          *)
(* stimulus/generators/python.py.                                          *)
(*                                                                         *)
(* Python strings are TLA+ strings, taken apart with Len and SubSeq the    *)
(* way str.split / str.strip / str.startswith take them apart.  An         *)
(* Optional value is a sequence of length 0 (None) or 1.  An attribute     *)
(* value of a raw attribute map carries its Python type: S(string),        *)
(* L(list of strings) or D(ordered mapping from strings to strings).       *)
(***************************************************************************)
EXTENDS Integers, Sequences, FiniteSets, TLC

VARIABLES
    \* ---- one FunctionDescriptor of stimulus/model/functions.py ----
    fd_obj,          \* _obj: the raw attribute map
    fd_parameters,   \* _parameters: None or the derived ordered map
    fd_param_order,  \* _param_order
    fd_flags,        \* flags
    fd_ignored_by,   \* ignored_by
    fd_return_type,  \* return_type
    fd_read,         \* what the last read of a derived view returned or raised
    fd_prev,         \* _obj as it stood before the last update_from
    fd_src,          \* the argument of the last update_from
    fd_merged,       \* every source merged so far, in order
    fd_was_cached,   \* whether _parameters was filled when the last update_from began
    fd_iter,         \* what the last iteration of the reordered parameters yielded or
                     \* raised, when nothing was merged or read since
    \* ---- one generator of stimulus/generators/base.py ----
    g_class,         \* the name of the generator's class
    g_placement,     \* _input_placement of a single-block generator
    g_funcs,         \* _function_descriptors: ordered, name and descriptor
    g_ignore_cache,  \* _ignore_cache
    g_block_cache,   \* _block_cache
    g_out,           \* what the last generate() wrote to its output stream
    g_calls,         \* number of invocations of each block handler
    g_first,         \* the first value should_ignore_function returned, per name
    g_ret,           \* names and values should_ignore_function returned in the last operation
    g_seen,          \* IGNORE entries of every source merged into a descriptor, per name
    g_made,          \* names in the order of their first mention, and the number of
                     \* descriptor objects constructed for each
    g_loads,         \* number of load_function_descriptors_from_object calls
    g_gens,          \* number of generate() calls
    \* ---- RCCodeGenerator.chunk_outconv applied to one function ----
    rc_fn,           \* the function's descriptor
    rc_types,        \* the type catalog
    rc_chunk,        \* the output conversions generate_function built, or how it ended
    rc_load,         \* the catalog before the last load_type_descriptors_from_object
                     \* and the object it was given
    \* ---- RRCodeGenerator.generate_function applied to the same function ----
    rr_out,          \* what it wrote to the output stream, and how it ended
    \* ---- tokenize of stimulus/lexer.py, driven by Parser.parse ----
    lx_doc,          \* the physical lines read from the stream so far
    lx_lineno,       \* lineno
    lx_indent_stack, \* indent_stack
    lx_tokens,       \* every token yielded so far
    lx_state,        \* "scanning", "done" after the end of the stream, or "error"
    lx_err,          \* the ParseError tokenize raised
    lx_step,         \* the last line handled: its indentation level, the stack
                     \* before it, and the indentation tokens it yielded
    \* ---- Parser.parse of stimulus/parser.py on the same stream ----
    px_stack,        \* stack: the frames, the root frame first
    px_value,        \* value: the root mapping parse returns
    px_status,       \* "running", "returned", or the exception that ended parse
    \* ---- ParamSpec.from_string of stimulus/model/parameters.py ----
    ps_in,           \* the words an item of PARAMS is written with
    ps_spec,         \* the ParamSpec made of the item, or how from_string ended
    \* ---- the parameter and dependency memos of CodeGeneratorBase, for one function ----
    pc_fn,           \* the descriptor of the function in _function_descriptors
    pc_param_cache,  \* _param_cache.get(name): None or the memoized mapping
    pc_deps_cache,   \* _deps_cache.get(name): None or the memoized mapping
    pc_ret,          \* what the last query returned or raised
    pc_loads,        \* number of load_function_descriptors_from_object calls
    \* ---- main() of stimulus/__main__.py on one command line ----
    cli_args,        \* the option lists main collects from the command line
    cli_exit,        \* how the process ended and its exit status
    cli_made,        \* number of generators constructed
    cli_opened,      \* number of output files opened for writing
    \* ---- generate_functions_block of an R generator over a catalog ----
    job_class,       \* the name of the generator class
    job_funcs,       \* _function_descriptors: ordered, name and descriptor
    job_types,       \* types: the type catalog
    job_out,         \* the generate_function calls of the block, the items written
                     \* to the output, and how the block ended
    \* ---- PythonCTypesTypedWrapperCodeGenerator.generate_function on the descriptor ----
    py_out,          \* what the last generate_function wrote or raised, and after how many merges
    py_gens          \* number of generate_function calls

fdvars == <<fd_obj, fd_parameters, fd_param_order, fd_flags, fd_ignored_by,
            fd_return_type, fd_read, fd_prev, fd_src, fd_merged, fd_was_cached,
            fd_iter>>
gvars == <<g_class, g_placement, g_funcs, g_ignore_cache, g_block_cache,
           g_out, g_calls, g_first, g_ret, g_seen, g_made, g_loads, g_gens>>
rcvars == <<rc_fn, rc_types, rc_chunk, rc_load, rr_out>>
lxvars == <<lx_doc, lx_lineno, lx_indent_stack, lx_tokens, lx_state, lx_err, lx_step,
            px_stack, px_value, px_status>>
psvars == <<ps_in, ps_spec>>
pcvars == <<pc_fn, pc_param_cache, pc_deps_cache, pc_ret, pc_loads>>
clivars == <<cli_args, cli_exit, cli_made, cli_opened>>
jobvars == <<job_class, job_funcs, job_types, job_out>>
pyvars == <<py_out, py_gens>>
vars == <<fdvars, gvars, rcvars, lxvars, psvars, pcvars, clivars, jobvars, pyvars>>

\* what the operations on one component leave alone
NotFd == <<gvars, rcvars, lxvars, psvars, pcvars, clivars, jobvars, pyvars>>
NotGen == <<fdvars, rcvars, lxvars, psvars, pcvars, clivars, jobvars, pyvars>>
NotRc == <<fdvars, gvars, lxvars, psvars, pcvars, clivars, jobvars, pyvars>>
NotLx == <<fdvars, gvars, rcvars, psvars, pcvars, clivars, jobvars, pyvars>>
NotPs == <<fdvars, gvars, rcvars, lxvars, pcvars, clivars, jobvars, pyvars>>
NotPc == <<fdvars, gvars, rcvars, lxvars, psvars, clivars, jobvars, pyvars>>
NotCli == <<fdvars, gvars, rcvars, lxvars, psvars, pcvars, jobvars, pyvars>>
NotJob == <<fdvars, gvars, rcvars, lxvars, psvars, pcvars, clivars, pyvars>>
NotPy == <<fdvars, gvars, rcvars, lxvars, psvars, pcvars, clivars, jobvars>>
NotFdPy == <<gvars, rcvars, lxvars, psvars, pcvars, clivars, jobvars>>

-----------------------------------------------------------------------------
(* Bounds of the model *)

MaxUpdates == 3      \* update_from calls on the descriptor
MaxLoads == 2        \* load_function_descriptors_from_object calls
MaxGenerates == 2    \* generate() calls on one generator

-----------------------------------------------------------------------------
(* Optional values and Python strings *)

None == <<>>
Some(x) == <<x>>
IsNone(o) == Len(o) = 0
Get(o) == o[1]

SetMin(X) == CHOOSE x \in X : \A y \in X : x <= y
SetMax(X) == CHOOSE x \in X : \A y \in X : x >= y

\* s.find(sep) + 1: the first position where sep occurs in s, 0 when none
Find(s, sep) ==
    LET hits == {i \in 1..(Len(s) - Len(sep) + 1) :
                    SubSeq(s, i, i + Len(sep) - 1) = sep}
    IN  IF hits = {} THEN 0 ELSE SetMin(hits)

\* sep in s
Contains(s, sep) == Find(s, sep) # 0

\* s.startswith(prefix)
StartsWith(s, prefix) ==
    Len(prefix) <= Len(s) /\ SubSeq(s, 1, Len(prefix)) = prefix

\* s.strip()
Strip(s) ==
    LET keep == {i \in 1..Len(s) : SubSeq(s, i, i) # " "}
    IN  IF keep = {} THEN "" ELSE SubSeq(s, SetMin(keep), SetMax(keep))

\* s.split(sep, 1)
Split1(s, sep) ==
    LET i == Find(s, sep)
    IN  IF i = 0 THEN <<s>>
        ELSE <<SubSeq(s, 1, i - 1), SubSeq(s, i + Len(sep), Len(s))>>

\* s.split(sep)
RECURSIVE Split(_, _)
Split(s, sep) ==
    LET i == Find(s, sep)
    IN  IF i = 0 THEN <<s>>
        ELSE <<SubSeq(s, 1, i - 1)>> \o Split(SubSeq(s, i + Len(sep), Len(s)), sep)

\* [x.strip() for x in seq]
StripAll(seq) == [i \in 1..Len(seq) |-> Strip(seq[i])]

\* str.lower() on the letters the flag names of the model are written in
LowerOf(c) ==
    CASE c = "A" -> "a" [] c = "D" -> "d" [] c = "E" -> "e" [] c = "I" -> "i"
      [] c = "L" -> "l" [] c = "N" -> "n" [] c = "P" -> "p" [] c = "R" -> "r"
      [] c = "T" -> "t" [] OTHER -> c

RECURSIVE Lower(_)
Lower(s) ==
    IF Len(s) = 0 THEN "" ELSE LowerOf(SubSeq(s, 1, 1)) \o Lower(SubSeq(s, 2, Len(s)))

Range(seq) == {seq[i] : i \in 1..Len(seq)}

\* the elements of seq that satisfy Keep, in order
RECURSIVE SelectNames(_, _)
SelectNames(seq, keepSet) ==
    IF Len(seq) = 0 THEN <<>>
    ELSE (IF Head(seq) \in keepSet THEN <<Head(seq)>> ELSE <<>>)
            \o SelectNames(Tail(seq), keepSet)

-----------------------------------------------------------------------------
(* Attribute values of a raw attribute map *)

S(x) == [t |-> "str", v |-> x]
L(x) == [t |-> "list", v |-> x]
D(x) == [t |-> "dict", v |-> x]

\* Python truthiness of an attribute value
Truthy(val) ==
    CASE val.t = "str" -> val.v # ""
      [] val.t = "list" -> Len(val.v) > 0
      [] val.t = "dict" -> Len(val.v) > 0

SameValue(a, b) == a.t = b.t /\ a.v = b.v

\* d with key k set to value x
SetKey(d, k, x) == [j \in DOMAIN d \cup {k} |-> IF j = k THEN x ELSE d[j]]

\* d with key k left in it
KeepKey(d, k) == d

\* d without key k
DelKey(d, k) == [j \in DOMAIN d \ {k} |-> d[j]]

EmptyMap == [j \in {} |-> S("")]

-----------------------------------------------------------------------------
(* stimulus/model/parameters.py *)

NoError == [kind |-> "", arg |-> "", func |-> ""]
Error(kind, arg, func) == [kind |-> kind, arg |-> arg, func |-> func]

\* the loop of from_string that strips leading PRIMARY / OPTIONAL prefixes
RECURSIVE StripFlags(_, _)
StripFlags(value, present) ==
    IF StartsWith(value, "PRIMARY")
    THEN StripFlags(Strip(SubSeq(value, 8, Len(value))), present \cup {"PRIMARY"})
    ELSE IF StartsWith(value, "OPTIONAL")
    THEN StripFlags(Strip(SubSeq(value, 9, Len(value))), present \cup {"OPTIONAL"})
    ELSE [value |-> value, present |-> present]

\* ParamMode(mode.lower())
ParamMode(mode) ==
    CASE mode = "IN" -> "in" [] mode = "OUT" -> "out" [] mode = "INOUT" -> "inout"

\* lines 108-117: the fields of the parts, trimmed
FromParts(parts, present) ==
    Some([name |-> parts[3],
          type |-> parts[2],
          mode |-> ParamMode(parts[1]),
          default |-> IF Len(parts) > 3 THEN Some(parts[4]) ELSE None,
          is_primary |-> "PRIMARY" \in present,
          is_optional |-> "OPTIONAL" \in present,
          dependencies |-> <<>>,
          output_name_override |-> None,
          name_override |-> None])

\* lines 105-106: parts[2] is split at its first `=`
SplitDefault(parts) ==
    IF Contains(parts[3], "=")
    THEN SubSeq(parts, 1, 2) \o Split1(parts[3], "=") ELSE parts

\* lines 101-104: the mode keyword, or IN, then the type and the rest
SplitMode(parts) ==
    (IF parts[1] \notin {"OUT", "IN", "INOUT"} THEN <<"IN", parts[1]>> ELSE <<parts[1]>>)
        \o Split1(parts[2], " ")

\* lines 105-117, None when parts[2] raises IndexError
FromModeParts(parts, present) ==
    IF Len(parts) < 3 THEN None ELSE FromParts(StripAll(SplitDefault(parts)), present)

\* lines 100-117, None when parts[1] raises IndexError
FromFirstSplit(parts, present) ==
    IF Len(parts) < 2 THEN None ELSE FromModeParts(SplitMode(parts), present)

\* lines 100-117 on the value left by the flag loop
FromStripped(sf) == FromFirstSplit(Split1(sf.value, " "), sf.present)

\* ParamSpec.from_string; None when the item makes it raise IndexError
FromString(item) == FromStripped(StripFlags(Strip(item), {}))

is_input(param) == param.mode \in {"in", "inout"}
is_output(param) == param.mode \in {"out", "inout"}

\* ParamSpec.name_as_output
name_as_output(param) ==
    IF ~IsNone(param.output_name_override) /\ Get(param.output_name_override) # ""
    THEN Get(param.output_name_override) ELSE param.name

-----------------------------------------------------------------------------
(* Ordered dictionaries: sequences of entries with distinct keys *)

Keys(od) == [i \in 1..Len(od) |-> od[i].name]
HasKey(od, k) == \E i \in 1..Len(od) : od[i].name = k
IndexOf(od, k) == CHOOSE i \in 1..Len(od) : od[i].name = k
Lookup(od, k) == od[IndexOf(od, k)]

\* od[entry.name] = entry: a known key keeps its place, a new one goes last
Put(od, entry) ==
    IF HasKey(od, entry.name)
    THEN [i \in 1..Len(od) |-> IF od[i].name = entry.name THEN entry ELSE od[i]]
    ELSE Append(od, entry)

RECURSIVE PutAll(_, _)
PutAll(od, entries) ==
    IF Len(entries) = 0 THEN od ELSE PutAll(Put(od, Head(entries)), Tail(entries))

\* the string-to-string mapping kept as an ordered list of pairs
Pair(k, x) == [name |-> k, value |-> x]

-----------------------------------------------------------------------------
(* stimulus/model/functions.py: the derived views *)

FuncName == "f"

Failed(err) == [ok |-> FALSE, val |-> <<>>, err |-> err]
Done(val) == [ok |-> TRUE, val |-> val, err |-> NoError]

\* obj.get(key) as a list of items: the split of lines 244-249 and 287-292
ItemsOf(obj, key) ==
    IF key \notin DOMAIN obj \/ ~Truthy(obj[key]) THEN <<>>
    ELSE IF obj[key].t = "str" THEN Split(obj[key].v, ",")
    ELSE obj[key].v

\* lines 233-234 on one item already split at ON
DependencyEntry(item) ==
    IF Len(item) < 2 THEN None
    ELSE Some([name |-> item[1], values |-> StripAll(Split1(item[2], " "))])

\* one item of DEPS, lines 231-234; None when item[1] raises IndexError
ParseDependencyItem(item) == DependencyEntry(StripAll(Split1(Strip(item), "ON")))

\* the dictionary of line 236
DependencyDict(parsed) ==
    IF \E i \in 1..Len(parsed) : IsNone(parsed[i])
    THEN Failed(Error("IndexError", "", FuncName))
    ELSE Done(PutAll(<<>>, [i \in 1..Len(parsed) |-> Get(parsed[i])]))

\* FunctionDescriptor._parse_dependencies
ParseDependencies(obj) ==
    DependencyDict([i \in 1..Len(ItemsOf(obj, "DEPS")) |->
                        ParseDependencyItem(ItemsOf(obj, "DEPS")[i])])

\* lines 258-267: attach the dependencies, or raise at the first entry
\* whose declaring name is not a parameter
AttachDependenciesNoCheck(result, deps) ==
    Done([i \in 1..Len(result) |->
            IF HasKey(deps, result[i].name)
            THEN [result[i] EXCEPT
                    !.dependencies = @ \o Lookup(deps, result[i].name).values]
            ELSE result[i]])

AttachDependencies(result, deps) ==
    LET unknown == {i \in 1..Len(deps) : ~HasKey(result, deps[i].name)}
    IN  IF unknown # {}
        THEN Failed(Error("dependency declared on unknown argument",
                          deps[SetMin(unknown)].name, FuncName))
        ELSE AttachDependenciesNoCheck(result, deps)

\* lines 269-278: param.name_override = new_name or None
ApplyParamNames(result, mapping) ==
    LET unknown == {i \in 1..Len(mapping) : ~HasKey(result, mapping[i].name)}
    IN  IF unknown # {}
        THEN Failed(Error("parameter name was overridden for unknown parameter",
                          mapping[SetMin(unknown)].name, FuncName))
        ELSE Done([i \in 1..Len(result) |->
                IF HasKey(mapping, result[i].name)
                THEN [result[i] EXCEPT !.name_override =
                        IF Lookup(mapping, result[i].name).value = "" THEN None
                        ELSE Some(Lookup(mapping, result[i].name).value)]
                ELSE result[i]])

\* lines 269-280
WithParamNames(obj, withDeps) ==
    IF ~withDeps.ok THEN withDeps
    ELSE IF "PARAM_NAMES" \in DOMAIN obj /\ Truthy(obj["PARAM_NAMES"])
    THEN ApplyParamNames(withDeps.val, obj["PARAM_NAMES"].v)
    ELSE withDeps

\* lines 258-280
WithDependencies(obj, result, deps) ==
    IF ~deps.ok THEN deps
    ELSE WithParamNames(obj, AttachDependencies(result, deps.val))

\* lines 255-280
ParseFromSpecs(obj, specs) ==
    IF \E i \in 1..Len(specs) : IsNone(specs[i])
    THEN Failed(Error("IndexError", "", FuncName))
    ELSE WithDependencies(obj, PutAll(<<>>, [i \in 1..Len(specs) |-> Get(specs[i])]),
                          ParseDependencies(obj))

\* [ParamSpec.from_string(item) for item in params]
SpecsOf(params) == [i \in 1..Len(params) |-> FromString(params[i])]

\* FunctionDescriptor._parse_parameter_specifications
ParseParameterSpecifications(obj) == ParseFromSpecs(obj, SpecsOf(ItemsOf(obj, "PARAMS")))

\* not_seen_params.remove(name)
Remove(seq, x) == SelectNames(seq, Range(seq) \ {x})

\* the loop of lines 302-313 over the entries of PARAM_ORDER
RECURSIVE OrderScan(_, _, _, _)
OrderScan(names, order, notSeen, restIndex) ==
    IF Len(names) = 0
    THEN [ok |-> TRUE, order |-> order, notSeen |-> notSeen,
          restIndex |-> restIndex, arg |-> ""]
    ELSE
      LET name == Strip(Head(names))
      IN  IF name \in Range(notSeen)
          THEN OrderScan(Tail(names), Append(order, name), Remove(notSeen, name), restIndex)
          ELSE IF name = "..."
          THEN OrderScan(Tail(names), order, notSeen, Len(order))
          ELSE [ok |-> FALSE, order |-> order, notSeen |-> notSeen,
                restIndex |-> restIndex, arg |-> name]

\* the unlisted parameters appended whatever the position of `...`
InsertAtEnd(order, restIndex, rest) == order \o rest

\* self._param_order[rest_index:rest_index] = not_seen_params
InsertAt(order, restIndex, rest) ==
    SubSeq(order, 1, restIndex) \o rest \o SubSeq(order, restIndex + 1, Len(order))

\* lines 315-318 with the raise of lines 310-313 left out: the entries read
\* before the offending one are the order
FinishOrderNoRaise(scan) ==
    Done(InsertAt(scan.order,
                  IF scan.restIndex < 0 THEN Len(scan.order) ELSE scan.restIndex,
                  scan.notSeen))

\* lines 315-318 after the loop, or the raise of lines 310-313; val is
\* _param_order as the call leaves it, also when it raises
FinishOrder(scan) ==
    IF ~scan.ok
    THEN [ok |-> FALSE, val |-> scan.order,
          err |-> Error("appears twice in PARAM_ORDER", scan.arg, FuncName)]
    ELSE IF Len(scan.notSeen) > 0
    THEN Done(InsertAt(scan.order,
                       IF scan.restIndex < 0 THEN Len(scan.order) ELSE scan.restIndex,
                       scan.notSeen))
    ELSE Done(scan.order)

\* FunctionDescriptor._update_parameter_order
UpdateParameterOrder(parameters, obj) ==
    FinishOrder(OrderScan(ItemsOf(obj, "PARAM_ORDER"), <<>>, Keys(parameters), -1))

\* what a read of a derived view returned or raised
NotRead == [st |-> "none", val |-> <<>>, err |-> NoError]
Returned(val) == [st |-> "ok", val |-> val, err |-> NoError]
Raised(err) == [st |-> "raised", val |-> <<>>, err |-> err]

\* what an iteration of the reordered parameters yielded or raised
NotIterated == [st |-> "none", which |-> "", names |-> <<>>, err |-> NoError]
Yielded(which, names) == [st |-> "ok", which |-> which, names |-> names, err |-> NoError]
IterRaised(err) == [st |-> "raised", which |-> "", names |-> <<>>, err |-> err]

\* lines 62-64 once _parse_parameter_specifications has returned: _parameters
\* is assigned before _update_parameter_order runs
AfterOrder(parameters, order) ==
    [parameters |-> Some(parameters), param_order |-> order.val,
     read |-> IF order.ok THEN Returned(parameters) ELSE Raised(order.err)]

\* lines 62-64
AfterParse(parsed, param_order, obj) ==
    IF ~parsed.ok
    THEN [parameters |-> None, param_order |-> param_order, read |-> Raised(parsed.err)]
    ELSE AfterOrder(parsed.val, UpdateParameterOrder(parsed.val, obj))

\* the property FunctionDescriptor.parameters: the fields it leaves and what
\* it returns or raises
ParametersProperty(parameters, param_order, obj) ==
    IF IsNone(parameters)
    THEN AfterParse(ParseParameterSpecifications(obj), param_order, obj)
    ELSE [parameters |-> parameters, param_order |-> param_order,
          read |-> Returned(Get(parameters))]

-----------------------------------------------------------------------------
(* stimulus/model/functions.py: update_from *)

\* deepmerge's always_merger on two values: mappings merge key by key,
\* lists are appended, anything else is overridden by the newer value
MergeValue(old, new) ==
    IF old.t = "dict" /\ new.t = "dict" THEN D(PutAll(old.v, new.v))
    ELSE IF old.t = "list" /\ new.t = "list" THEN L(old.v \o new.v)
    ELSE new

\* always_merger.merge(self._obj, obj)
Merge(base, src) ==
    [k \in DOMAIN base \cup DOMAIN src |->
        IF k \notin DOMAIN src THEN base[k]
        ELSE IF k \in DOMAIN base THEN MergeValue(base[k], src[k])
        ELSE src[k]]

\* lines 193-199 without the two assignments of ""
KeepBeforeMerge(obj, src) == obj

\* lines 193-199: the stored PARAMS and DEPS are emptied before the merge
ResetBeforeMerge(obj, src) ==
    LET o1 == IF "PARAMS" \in DOMAIN src THEN SetKey(obj, "PARAMS", S("")) ELSE obj
    IN  IF "DEPS" \in DOMAIN src THEN SetKey(o1, "DEPS", S("")) ELSE o1

\* lines 193-206 with the reset of the cache for DEPS and PARAM_NAMES left out
InvalidatesOnParamsOnly(src) == DOMAIN src \cap {"PARAMS", "PARAM_ORDER"} # {}

\* lines 193-206: the keys whose presence sets _parameters to None
InvalidatesParameters(src) ==
    DOMAIN src \cap {"PARAMS", "DEPS", "PARAM_NAMES", "PARAM_ORDER"} # {}

\* DescriptorMixin._parse_as_comma_separated_list: the comma-separated
\* entries of the stored value, trimmed
ParseAsCommaSeparatedList(obj, key) == StripAll(ItemsOf(obj, key))

\* FunctionDescriptor.update_from.  The sources of the model carry no
\* INTERNAL key, for which lines 216-221 leave the flags alone.
UpdateFrom(src) ==
    LET merged == Merge(ResetBeforeMerge(fd_obj, src), src)
        return_type == IF "RETURN" \in DOMAIN merged THEN merged["RETURN"].v ELSE ""
    IN  /\ Len(fd_merged) < MaxUpdates
        /\ fd_parameters' = IF InvalidatesParameters(src) THEN None ELSE fd_parameters
        /\ fd_param_order' = IF "PARAM_ORDER" \in DOMAIN src THEN <<>> ELSE fd_param_order
        /\ fd_ignored_by' = fd_ignored_by \cup Range(ParseAsCommaSeparatedList(merged, "IGNORE"))
        /\ fd_flags' = fd_flags \cup
                {Lower(x) : x \in Range(ParseAsCommaSeparatedList(merged, "FLAGS"))}
        /\ fd_obj' = DelKey(merged, "RETURN")
        /\ fd_return_type' = IF return_type # "" THEN return_type ELSE fd_return_type
        /\ fd_prev' = fd_obj
        /\ fd_src' = src
        /\ fd_merged' = Append(fd_merged, src)
        /\ fd_was_cached' = ~IsNone(fd_parameters)
        /\ fd_read' = NotRead
        /\ fd_iter' = NotIterated
        /\ UNCHANGED NotFd

\* the descriptor and the caller are left with what the property computed
ReadLeaves(r) ==
    /\ fd_parameters' = r.parameters
    /\ fd_param_order' = r.param_order
    /\ fd_read' = r.read

\* a read of the property FunctionDescriptor.parameters, lines 59-64
ReadParameters ==
    /\ Len(fd_merged) > 0
    /\ ReadLeaves(ParametersProperty(fd_parameters, fd_param_order, fd_obj))
    /\ fd_iter' = NotIterated
    /\ UNCHANGED <<fd_obj, fd_flags, fd_ignored_by, fd_return_type, fd_prev,
                   fd_src, fd_merged, fd_was_cached>>
    /\ UNCHANGED NotFd

\* the names of the input and in-out parameters among the given names
RECURSIVE InputNames(_, _)
InputNames(parameters, names) ==
    IF Len(names) = 0 THEN <<>>
    ELSE (IF is_input(Lookup(parameters, Head(names))) THEN <<Head(names)>> ELSE <<>>)
            \o InputNames(parameters, Tail(names))

\* the names of the parameters an iteration over the given names yields:
\* iter_input_parameters keeps those with param.is_input, lines 118-121
YieldedNames(parameters, names, which) ==
    IF which = "input" THEN InputNames(parameters, names) ELSE names

\* (self.parameters[name] for name in self._param_order), consumed from a list
\* that is not empty: the iterator of the list is at its first entry when
\* self.parameters is evaluated for the first time, and goes on with the
\* second entry of the list as the derivation left it
IterationOver(r, first, which) ==
    IF r.read.st = "raised" THEN IterRaised(r.read.err)
    ELSE IF ~HasKey(Get(r.parameters), first)
    THEN IterRaised(Error("KeyError", first, ""))
    ELSE Yielded(which, YieldedNames(Get(r.parameters),
                    <<first>> \o SubSeq(r.param_order, 2, Len(r.param_order)), which))

\* the descriptor and the caller after an iteration that read self.parameters
IterationLeaves(r, first, which) ==
    /\ fd_parameters' = r.parameters
    /\ fd_param_order' = r.param_order
    /\ fd_iter' = IterationOver(r, first, which)

\* list(iter_reordered_parameters()), list(iter_parameters(reorder=True)) or,
\* for which = "input", list(iter_input_parameters(reorder=True)): an empty
\* _param_order ends the iteration before self.parameters is evaluated
IterReordered(which) ==
    /\ Len(fd_merged) > 0
    /\ IF Len(fd_param_order) = 0
       THEN /\ fd_iter' = Yielded(which, <<>>)
            /\ UNCHANGED <<fd_parameters, fd_param_order>>
       ELSE IterationLeaves(ParametersProperty(fd_parameters, fd_param_order, fd_obj),
                            fd_param_order[1], which)
    /\ UNCHANGED <<fd_obj, fd_flags, fd_ignored_by, fd_return_type, fd_read, fd_prev,
                   fd_src, fd_merged, fd_was_cached>>
    /\ UNCHANGED NotFd

\* the attribute maps merged into the descriptor
FuncSources ==
    { [PARAMS |-> S("IN INT a, OUT DOUBLE b, OUT INT c"), NAME |-> S("first"),
       IGNORE |-> S("Foo, Bar")],
      [PARAMS |-> S("GRAPH g, OPTIONAL INOUT VECTOR a=NULL"), RETURN |-> S("INT")],
      [PARAMS |-> L(<<"INT a", "OUT INT d">>), FLAGS |-> S("INTERNAL")],
      [PARAMS |-> L(<<"OUT REAL b">>), IGNORE |-> S("Baz")],
      [DEPS |-> S("a ON b")],
      [DEPS |-> S("a ON z, c ON a b")],
      [DEPS |-> S("q ON a"), RETURN |-> S("")],
      [PARAMS |-> S("IN INT a, OUT DOUBLE b, OUT INT c, INT n"), DEPS |-> S("a ON b c n"),
       RETURN |-> S("BOOL")],
      [PARAM_ORDER |-> S("b, ..., a")],
      [PARAM_ORDER |-> S("c, a")],
      [PARAM_ORDER |-> S("a, a")],
      [PARAM_ORDER |-> S("..., b")],
      [PARAM_NAMES |-> D(<<Pair("a", "alpha")>>)],
      SetKey([PARAM_NAMES |-> D(<<Pair("b", "beta")>>)], "NAME-R", S("second")) }

\* the attribute maps merged into a descriptor whose parameters are iterated
IterSources ==
    { [PARAMS |-> S("IN INT a, OUT DOUBLE b, OUT INT c"), NAME |-> S("first"),
       IGNORE |-> S("Foo, Bar")],
      [PARAMS |-> S("GRAPH g, OPTIONAL INOUT VECTOR a=NULL"), RETURN |-> S("INT")],
      [PARAMS |-> L(<<"OUT REAL b">>), IGNORE |-> S("Baz")],
      [DEPS |-> S("q ON a"), RETURN |-> S("")],
      [PARAM_ORDER |-> S("b, ..., a")],
      [PARAM_ORDER |-> S("c, a")],
      [PARAM_ORDER |-> S("a, a")],
      [PARAM_NAMES |-> D(<<Pair("a", "alpha")>>)] }

FdInit ==
    /\ fd_obj = EmptyMap
    /\ fd_parameters = None
    /\ fd_param_order = <<>>
    /\ fd_flags = {}
    /\ fd_ignored_by = {}
    /\ fd_return_type = "ERROR"
    /\ fd_read = NotRead
    /\ fd_prev = EmptyMap
    /\ fd_src = EmptyMap
    /\ fd_merged = <<>>
    /\ fd_was_cached = FALSE
    /\ fd_iter = NotIterated

-----------------------------------------------------------------------------
(* stimulus/generators/base.py: the catalog and the ignore memo *)

\* CodeGeneratorBase.__init__, lines 205-206: the class name without its suffix
GeneratorName(cls) == SubSeq(cls, 1, Len(cls) - Len("CodeGenerator"))

\* the descriptor class of generators/base.py, lines 84-87
NewDescriptor == [obj |-> EmptyMap, ignored_by |-> {}, return_type |-> "ERROR"]

\* self._obj.update(obj), line 102
DictUpdate(base, src) ==
    [k \in DOMAIN base \cup DOMAIN src |-> IF k \in DOMAIN src THEN src[k] ELSE base[k]]

\* obj.get(key, ""), lines 104 and 108
GetOrEmpty(obj, key) == IF key \in DOMAIN obj THEN obj[key] ELSE ""

\* lines 104-106 with the new entries added to the old ones
IgnoredByUnion(ignored_by, ignore) ==
    IF ignore # "" THEN ignored_by \cup Range(StripAll(Split(ignore, ","))) ELSE ignored_by

\* lines 104-106: a non-empty IGNORE is split, trimmed and assigned
IgnoredByAfter(ignored_by, ignore) ==
    IF ignore # "" THEN Range(StripAll(Split(ignore, ","))) ELSE ignored_by

\* FunctionDescriptor.update_from of generators/base.py, lines 98-110
DescriptorUpdateFrom(desc, spec) ==
    [obj |-> DictUpdate(desc.obj, spec),
     ignored_by |-> IgnoredByAfter(desc.ignored_by, GetOrEmpty(spec, "IGNORE")),
     return_type |-> IF GetOrEmpty(spec, "RETURN") # ""
                     THEN GetOrEmpty(spec, "RETURN") ELSE desc.return_type]

\* lines 223-225: the descriptor update_from is called on; a known descriptor
\* of length 0 is false and replaced by a new one
DescriptorFor(funcs, name) ==
    IF HasKey(funcs, name) /\ DOMAIN Lookup(funcs, name).desc.obj # {}
    THEN Lookup(funcs, name).desc ELSE NewDescriptor

\* CodeGeneratorBase.load_function_descriptors_from_object
RECURSIVE LoadAll(_, _)
LoadAll(funcs, entries) ==
    IF Len(entries) = 0 THEN funcs
    ELSE LoadAll(Put(funcs, [name |-> Head(entries).name,
                             desc |-> DescriptorUpdateFrom(
                                        DescriptorFor(funcs, Head(entries).name),
                                        Head(entries).spec)]),
                 Tail(entries))

\* CodeGeneratorBase._should_ignore_function
ShouldIgnoreNow(funcs, cls, name) ==
    GeneratorName(cls) \in Lookup(funcs, name).desc.ignored_by

\* line 312 written `if not result`
IgnoreCacheMissOrFalse(cache, name) == name \notin DOMAIN cache \/ ~cache[name]

\* lines 311-312: the memo has no value for the name
IgnoreCacheMiss(cache, name) == name \notin DOMAIN cache

\* CodeGeneratorBase.should_ignore_function: the value returned
ShouldIgnoreFunction(cache, funcs, cls, name) ==
    IF IgnoreCacheMiss(cache, name) THEN ShouldIgnoreNow(funcs, cls, name)
    ELSE cache[name]

\* _ignore_cache after should_ignore_function was called for the names of seq
IgnoreCacheAfter(cache, funcs, cls, seq) ==
    [n \in DOMAIN cache \cup Range(seq) |->
        IF n \in Range(seq) THEN ShouldIgnoreFunction(cache, funcs, cls, n) ELSE cache[n]]

\* iter_functions that yields every name of the catalog
IterAllFunctions(cache, funcs, cls) == Keys(funcs)

\* CodeGeneratorBase.iter_functions, lines 294-296
IterFunctions(cache, funcs, cls) ==
    SelectNames(Keys(funcs),
                {n \in Range(Keys(funcs)) : ~ShouldIgnoreFunction(cache, funcs, cls, n)})

\* what a call of an abstract generate_function writes
FunctionItem(name) == [kind |-> "function", name |-> name, content |-> <<>>]

\* CodeGeneratorBase.generate_functions_block: the text written
FunctionsBlock(cache, funcs, cls) ==
    [i \in 1..Len(IterFunctions(cache, funcs, cls)) |->
        FunctionItem(IterFunctions(cache, funcs, cls)[i])]

\* the function names the generator is asked about
FunctionNames == {"f", "g", "h"}

\* the objects given to load_function_descriptors_from_object
LoadSources ==
    { << [name |-> "f", spec |-> [PARAMS |-> "IN INT a, OUT DOUBLE b", IGNORE |-> "RC, Foo"]],
         [name |-> "g", spec |-> [PARAMS |-> "GRAPH graph"]] >>,
      << [name |-> "f", spec |-> [IGNORE |-> "Bar"]],
         [name |-> "h", spec |-> EmptyMap] >>,
      << [name |-> "h", spec |-> [RETURN |-> "INT"]],
         [name |-> "g", spec |-> [IGNORE |-> "Doc,RC"]] >> }

\* the observations of the ignore memo after should_ignore_function has
\* returned for the names of seq
FirstAfter(first, cache, funcs, cls, seq) ==
    [n \in DOMAIN first \cup Range(seq) |->
        IF n \in DOMAIN first THEN first[n]
        ELSE ShouldIgnoreFunction(cache, funcs, cls, n)]

ReturnedFor(cache, funcs, cls, seq) ==
    {[name |-> n, value |-> ShouldIgnoreFunction(cache, funcs, cls, n)] : n \in Range(seq)}

\* the IGNORE entries of the sources merged into each name's descriptor; a
\* descriptor that is replaced starts with none
RECURSIVE SeenAfter(_, _, _)
SeenAfter(seen, funcs, entries) ==
    IF Len(entries) = 0 THEN seen
    ELSE SeenAfter(
            SetKey(seen, Head(entries).name,
                   IgnoredByUnion(IF DescriptorFor(funcs, Head(entries).name) # NewDescriptor
                                  THEN seen[Head(entries).name] ELSE {},
                                  GetOrEmpty(Head(entries).spec, "IGNORE"))),
            LoadAll(funcs, <<Head(entries)>>),
            Tail(entries))

\* the names mentioned so far, in the order of their first mention, each with
\* the number of FunctionDescriptor() calls of line 225 made for it
RECURSIVE MadeAfter(_, _, _)
MadeAfter(made, funcs, entries) ==
    IF Len(entries) = 0 THEN made
    ELSE MadeAfter(
            Put(made, [name |-> Head(entries).name,
                       made |-> (IF HasKey(made, Head(entries).name)
                                 THEN Lookup(made, Head(entries).name).made ELSE 0)
                                + (IF HasKey(funcs, Head(entries).name)
                                      /\ DOMAIN Lookup(funcs, Head(entries).name).desc.obj # {}
                                   THEN 0 ELSE 1)]),
            LoadAll(funcs, <<Head(entries)>>),
            Tail(entries))

NoOutput == [kind |-> "none", inputs |-> <<>>, names |-> <<>>, unignored |-> <<>>,
             items |-> <<>>, raised |-> FALSE]

\* load_function_descriptors_from_object(obj)
LoadFunctionDescriptors(obj) ==
    /\ g_loads < MaxLoads
    /\ g_funcs' = LoadAll(g_funcs, obj)
    /\ g_seen' = SeenAfter(g_seen, g_funcs, obj)
    /\ g_made' = MadeAfter(g_made, g_funcs, obj)
    /\ g_loads' = g_loads + 1
    /\ g_ret' = {}
    /\ UNCHANGED <<g_class, g_placement, g_ignore_cache, g_block_cache, g_out,
                   g_calls, g_first, g_gens>>
    /\ UNCHANGED NotGen

\* should_ignore_function(name) for a name of the catalog
CallShouldIgnoreFunction(name) ==
    /\ HasKey(g_funcs, name)
    /\ g_ignore_cache' = IgnoreCacheAfter(g_ignore_cache, g_funcs, g_class, <<name>>)
    /\ g_first' = FirstAfter(g_first, g_ignore_cache, g_funcs, g_class, <<name>>)
    /\ g_ret' = ReturnedFor(g_ignore_cache, g_funcs, g_class, <<name>>)
    /\ UNCHANGED <<g_class, g_placement, g_funcs, g_block_cache, g_out, g_calls,
                   g_seen, g_made, g_loads, g_gens>>
    /\ UNCHANGED NotGen

-----------------------------------------------------------------------------
(* stimulus/generators/base.py: single-block and block-based composition *)

SingleClass == "RCCodeGenerator"
\* no block-based generator is among the sources; the model's one inherits
\* generate_functions_block and defines generate_extra_block, which writes the
\* names of the whole catalog
BlockClass == "DocCodeGenerator"
Handlers == {"functions", "extra"}

\* the lines of the input files
FileLines(file) ==
    CASE file = "one.in" -> <<"intro", "% STIMULUS %", "  %STIMULUS:functions%">>
      [] file = "two.in" -> <<"% STIMULUS: extra %", "% STIMULATE %", "%  STIMULUS  extra  % tail">>
      [] file = "bad.in" -> <<"% STIMULUS: no-such_1 %", "after">>

\* the lists of input files given to generate()
InputLists == {<<>>, <<"one.in", "two.in">>, <<"two.in", "bad.in">>}

\* CodeGeneratorBase._append_inputs: every file copied whole
AppendInputs(inputs) ==
    [i \in 1..Len(inputs) |->
        [kind |-> "input", name |-> inputs[i], content |-> FileLines(inputs[i])]]

\* lines 477 and 485: _input_placement is the wanted placement
PlacementIs(placement, wanted) == placement = wanted

\* SingleBlockCodeGenerator.generate_preamble / generate_epilogue
PlacedInputs(placement, wanted, inputs) ==
    IF PlacementIs(placement, wanted) THEN AppendInputs(inputs) ELSE <<>>

\* SingleBlockCodeGenerator.generate: the text written
SingleBlockOutput(placement, inputs, cache, funcs, cls) ==
    PlacedInputs(placement, "preamble", inputs)
        \o FunctionsBlock(cache, funcs, cls)
        \o PlacedInputs(placement, "epilogue", inputs)

\* the names whose ignored_by does not hold the backend's name, in catalog order
Unignored(funcs, cls) ==
    SelectNames(Keys(funcs),
                {n \in Range(Keys(funcs)) : ~ShouldIgnoreNow(funcs, cls, n)})

\* SingleBlockCodeGenerator.generate(inputs, output)
GenerateSingleBlock(inputs) ==
    /\ g_class = SingleClass
    /\ g_gens < MaxGenerates
    /\ g_out' = [kind |-> "single", inputs |-> inputs, names |-> Keys(g_funcs),
                 unignored |-> Unignored(g_funcs, g_class),
                 items |-> SingleBlockOutput(g_placement, inputs, g_ignore_cache,
                                             g_funcs, g_class),
                 raised |-> FALSE]
    /\ g_ignore_cache' = IgnoreCacheAfter(g_ignore_cache, g_funcs, g_class, Keys(g_funcs))
    /\ g_first' = FirstAfter(g_first, g_ignore_cache, g_funcs, g_class, Keys(g_funcs))
    /\ g_ret' = ReturnedFor(g_ignore_cache, g_funcs, g_class, Keys(g_funcs))
    /\ g_gens' = g_gens + 1
    /\ UNCHANGED <<g_class, g_placement, g_funcs, g_block_cache, g_calls, g_seen, g_made,
                   g_loads>>
    /\ UNCHANGED NotGen

\* the characters [-A-Za-z0-9_] of _BLOCK_REGEXP
NameChars ==
    {"a", "b", "c", "d", "e", "f", "g", "h", "i", "j", "k", "l", "m", "n", "o", "p",
     "q", "r", "s", "t", "u", "v", "w", "x", "y", "z",
     "A", "B", "C", "D", "E", "F", "G", "H", "I", "J", "K", "L", "M", "N", "O", "P",
     "Q", "R", "S", "T", "U", "V", "W", "X", "Y", "Z",
     "0", "1", "2", "3", "4", "5", "6", "7", "8", "9", "-", "_"}

CharAt(s, i) == IF i >= 1 /\ i <= Len(s) THEN SubSeq(s, i, i) ELSE ""

\* the position after a run of \s* that starts at i
AfterSpaces(s, i) ==
    SetMin({j \in i..Len(s) : SubSeq(s, j, j) # " "} \cup {Len(s) + 1})

\* the position after the run of name characters that starts at i
AfterName(s, i) ==
    SetMin({j \in i..Len(s) : SubSeq(s, j, j) \notin NameChars} \cup {Len(s) + 1})

\* _BLOCK_REGEXP from the name group on: the name, \s* and the closing %
MatchClose(s, i, j) ==
    IF CharAt(s, AfterSpaces(s, j)) = "%" THEN Some(SubSeq(s, i, j - 1)) ELSE None

MatchName(s, i) == MatchClose(s, i, AfterName(s, i))

\* :?\s* and the rest
MatchColon(s, i) == MatchName(s, AfterSpaces(s, IF CharAt(s, i) = ":" THEN i + 1 ELSE i))

\* STIMULUS and the rest
MatchWord(s, i) ==
    IF i + 7 <= Len(s) /\ SubSeq(s, i, i + 7) = "STIMULUS" THEN MatchColon(s, i + 8)
    ELSE None

\* %\s* and the rest
MatchPercent(s, i) ==
    IF CharAt(s, i) = "%" THEN MatchWord(s, AfterSpaces(s, i + 1)) ELSE None

\* _BLOCK_REGEXP.match(line): None, or the name group
BlockRegexpMatch(line) == MatchPercent(line, AfterSpaces(line, 1))

\* line 439: match.group("name") or "functions"
BlockName(group) == IF group = "" THEN "functions" ELSE group

\* line 441 written `if not block`
BlockCacheMissOrEmpty(cache, name) == name \notin DOMAIN cache \/ Len(cache[name]) = 0

\* lines 440-441: the block cache has no content for the name
BlockCacheMiss(cache, name) == name \notin DOMAIN cache

\* what a block item of the catalog's names looks like (generate_extra_block)
ExtraBlock(funcs) ==
    [i \in 1..Len(funcs) |-> [kind |-> "extra", name |-> funcs[i].name, content |-> <<>>]]

\* handler(buf); buf.getvalue(), lines 424-426
HandlerOutput(name, st, funcs, cls) ==
    IF name = "functions" THEN FunctionsBlock(st.ignore_cache, funcs, cls)
    ELSE ExtraBlock(funcs)

\* the names should_ignore_function is called for by the handler
HandlerAsks(name, funcs) == IF name = "functions" THEN Keys(funcs) ELSE <<>>

\* BlockBasedCodeGenerator._generate_block and the assignment of line 442
GenerateBlock(st, name, funcs, cls) ==
    [st EXCEPT
        !.block_cache = SetKey(@, name, HandlerOutput(name, st, funcs, cls)),
        !.calls = SetKey(@, name, (IF name \in DOMAIN @ THEN @[name] ELSE 0) + 1),
        !.ignore_cache = IgnoreCacheAfter(@, funcs, cls, HandlerAsks(name, funcs)),
        !.first = FirstAfter(@, st.ignore_cache, funcs, cls, HandlerAsks(name, funcs)),
        !.ret = @ \cup ReturnedFor(st.ignore_cache, funcs, cls, HandlerAsks(name, funcs))]

\* out.write(block), line 443
WriteBlock(st, name) ==
    [st EXCEPT !.items = Append(@, [kind |-> "block", name |-> name,
                                    content |-> st.block_cache[name]])]

\* _process_marker_line on a line that matches, lines 439-444; an unknown
\* handler raises StimulusError
ProcessMarker(st, name, funcs, cls) ==
    IF ~BlockCacheMiss(st.block_cache, name) THEN WriteBlock(st, name)
    ELSE IF name \notin Handlers THEN [st EXCEPT !.raised = TRUE]
    ELSE WriteBlock(GenerateBlock(st, name, funcs, cls), name)

\* lines 411-412 for one line
ProcessLine(st, line, match, funcs, cls) ==
    IF st.raised THEN st
    ELSE IF IsNone(match)
    THEN [st EXCEPT !.items = Append(@, [kind |-> "line", name |-> line, content |-> <<>>])]
    ELSE ProcessMarker(st, BlockName(Get(match)), funcs, cls)

RECURSIVE ProcessLines(_, _, _, _)
ProcessLines(st, lines, funcs, cls) ==
    IF Len(lines) = 0 THEN st
    ELSE ProcessLines(ProcessLine(st, Head(lines), BlockRegexpMatch(Head(lines)), funcs, cls),
                      Tail(lines), funcs, cls)

\* the lines of all input files, in order
RECURSIVE AllLines(_)
AllLines(inputs) ==
    IF Len(inputs) = 0 THEN <<>> ELSE FileLines(Head(inputs)) \o AllLines(Tail(inputs))

\* BlockBasedCodeGenerator.generate: the generator's fields and the output
\* as the call leaves them
BlockBasedRun(inputs) ==
    ProcessLines([block_cache |-> g_block_cache, calls |-> g_calls,
                  ignore_cache |-> g_ignore_cache, first |-> g_first, ret |-> {},
                  items |-> <<>>, raised |-> FALSE],
                 AllLines(inputs), g_funcs, g_class)

\* BlockBasedCodeGenerator.generate(inputs, out)
GenerateBlockBased(inputs) ==
    /\ g_class = BlockClass
    /\ g_gens < MaxGenerates
    /\ g_out' = [kind |-> "block", inputs |-> inputs, names |-> Keys(g_funcs),
                 unignored |-> Unignored(g_funcs, g_class),
                 items |-> BlockBasedRun(inputs).items,
                 raised |-> BlockBasedRun(inputs).raised]
    /\ g_block_cache' = BlockBasedRun(inputs).block_cache
    /\ g_calls' = BlockBasedRun(inputs).calls
    /\ g_ignore_cache' = BlockBasedRun(inputs).ignore_cache
    /\ g_first' = BlockBasedRun(inputs).first
    /\ g_ret' = BlockBasedRun(inputs).ret
    /\ g_gens' = g_gens + 1
    /\ UNCHANGED <<g_class, g_placement, g_funcs, g_seen, g_made, g_loads>>
    /\ UNCHANGED NotGen

\* the generator after __init__; only the single-block classes have a placement
GInit ==
    /\ g_class \in {SingleClass, BlockClass}
    /\ g_placement \in {"preamble", "epilogue"}
    /\ g_class = BlockClass => g_placement = "preamble"
    /\ g_funcs = <<>>
    /\ g_ignore_cache = <<>>
    /\ g_block_cache = <<>>
    /\ g_out = NoOutput
    /\ g_calls = <<>>
    /\ g_first = <<>>
    /\ g_ret = {}
    /\ g_seen = <<>>
    /\ g_made = <<>>
    /\ g_loads = 0
    /\ g_gens = 0

-----------------------------------------------------------------------------
(* stimulus/lexer.py: tokenize *)

MaxLines == 3        \* physical lines read from one stream

\* Token(type, value), with the TokenType written as its enum value
Token(type, value) == [type |-> type, value |-> value]
TokenDEDENT == Token("dedent", "")
TokenINDENT == Token("indent", "")
TokenKey(value) == Token("key", value)
TokenText(value) == Token("text", value)

\* the span of re.match("^[ \t]*", line)
IndentLevel(line) ==
    LET other == {i \in 1..Len(line) : SubSeq(line, i, i) \notin {" ", "\t"}}
    IN  IF other = {} THEN Len(line) ELSE SetMin(other) - 1

\* re.match("^[ \t]*$", line)
IsBlankLine(line) == IndentLevel(line) = Len(line)

\* re.match("^[ \t]*#", line)
IsCommentLine(line) ==
    /\ IndentLevel(line) < Len(line)
    /\ SubSeq(line, IndentLevel(line) + 1, IndentLevel(line) + 1) = "#"

\* s.endswith(suffix)
EndsWith(s, suffix) ==
    Len(suffix) <= Len(s) /\ SubSeq(s, Len(s) - Len(suffix) + 1, Len(s)) = suffix

\* while indent_level < indent_stack[-1]: indent_stack.pop()
RECURSIVE PopTo(_, _)
PopTo(stack, level) ==
    IF Len(stack) > 0 /\ level < stack[Len(stack)]
    THEN PopTo(SubSeq(stack, 1, Len(stack) - 1), level)
    ELSE stack

\* a dedent is accepted whatever level it lands on
LandsAnywhere(level, stack) == TRUE

\* indent_level == indent_stack[-1] after the pops
Lands(level, stack) == Len(stack) > 0 /\ level = stack[Len(stack)]

\* indent_stack after the indentation of a line of the given level is handled
AfterIndentation(stack, level) ==
    IF level > stack[Len(stack)] THEN Append(stack, level) ELSE PopTo(stack, level)

\* the tokens yielded while the indentation is handled
IndentationTokens(stack, level) ==
    IF level > stack[Len(stack)] THEN <<TokenINDENT>>
    ELSE [i \in 1..(Len(stack) - Len(PopTo(stack, level))) |-> TokenDEDENT]

\* raise ParseError("Bad indentation", lineno)
BadIndentation(stack, level) ==
    level <= stack[Len(stack)] /\ ~Lands(level, PopTo(stack, level))

\* line[:-1] + "\n  " + stream.readline().strip()
Continued(line, next) == SubSeq(line, 1, Len(line) - 1) \o "\n  " \o Strip(next)

\* the logical line: the stripped line, joined with the next physical line
\* when it ends with a backslash
LogicalLine(line, next) ==
    IF EndsWith(Strip(line), "\\") THEN Continued(Strip(line), next) ELSE Strip(line)

\* the number of physical lines a line takes from the stream
PhysicalLines(line) ==
    IF ~IsBlankLine(line) /\ ~IsCommentLine(line) /\ EndsWith(Strip(line), "\\")
    THEN 2 ELSE 1

\* key, sep, value = line.partition(":"), key and value stripped
Partition(line) ==
    LET i == Find(line, ":")
    IN  IF i = 0 THEN [key |-> Strip(line), sep |-> "", value |-> ""]
        ELSE [key |-> Strip(SubSeq(line, 1, i - 1)), sep |-> ":",
              value |-> Strip(SubSeq(line, i + 1, Len(line)))]

\* the tokens of the keys of a line: the bare keys, or every key with the
\* value in an indented block of its own
RECURSIVE KeyTokens(_, _)
KeyTokens(keys, value) ==
    IF Len(keys) = 0 THEN <<>>
    ELSE (IF value = "" THEN <<TokenKey(Head(keys))>>
          ELSE <<TokenKey(Head(keys)), TokenINDENT, TokenText(value), TokenDEDENT>>)
            \o KeyTokens(Tail(keys), value)

\* raise ParseError("Missing keyword", lineno)
MissingKeyword(part) == part.sep # "" /\ part.key = ""

\* the tokens of a partitioned logical line
PartTokens(part) ==
    IF part.sep = "" THEN <<TokenText(part.key)>>
    ELSE IF part.key = "" THEN <<>>
    ELSE KeyTokens(StripAll(Split(part.key, ",")), part.value)

ParseError(msg, lineno) == [msg |-> msg, lineno |-> lineno]
NoParseError == ParseError("", 0)

NoStep == [kind |-> "none", level |-> 0, before |-> <<>>, moves |-> <<>>]

-----------------------------------------------------------------------------
(* stimulus/parser.py: Parser.parse *)

\* StackFrame(name, value); the value is None, a string, a mapping of its
\* own, or the root mapping that parse returns
StackFrame(name, value) == [name |-> name, value |-> value]
NoValue == [t |-> "none", v |-> ""]
RootValue == [t |-> "root", v |-> ""]

\* the state of one parse
Parse(stack, value, status) == [stack |-> stack, value |-> value, status |-> status]

\* stack[-1].value = x
SetTopValue(stack, x) == [stack EXCEPT ![Len(stack)].value = x]

\* top_value = stack[-1].value; assert isinstance(top_value, dict);
\* top_value[frame.name] = frame.value, with the frame already popped
Store(p, stack, frame) ==
    IF Len(stack) = 0 THEN Parse(stack, p.value, "IndexError")
    ELSE IF stack[Len(stack)].value.t = "root"
    THEN Parse(stack, Put(p.value, Pair(Get(frame.name), frame.value)), p.status)
    ELSE IF stack[Len(stack)].value.t = "dict"
    THEN Parse(SetTopValue(stack, D(Put(stack[Len(stack)].value.v,
                                        Pair(Get(frame.name), frame.value)))),
               p.value, p.status)
    ELSE Parse(stack, p.value, "AssertionError")

\* the DEDENT branch
OnDedent(p) ==
    IF Len(p.stack) = 0 THEN Parse(p.stack, p.value, "IndexError")
    ELSE IF ~IsNone(p.stack[Len(p.stack)].name)
    THEN Store(p, SubSeq(p.stack, 1, Len(p.stack) - 1), p.stack[Len(p.stack)])
    ELSE IF Len(p.stack) = 1 THEN Parse(<<>>, p.value, "IndexError")
    ELSE Parse(SetTopValue(SubSeq(p.stack, 1, Len(p.stack) - 1),
                           p.stack[Len(p.stack)].value),
               p.value, p.status)

\* stack.append(StackFrame(name=token.value, value={}))
PushKey(p, name) ==
    IF p.status # "running" THEN p
    ELSE Parse(Append(p.stack, StackFrame(Some(name), D(<<>>))), p.value, p.status)

\* the KEY branch
OnKey(p, name) ==
    IF Len(p.stack) = 0 THEN Parse(p.stack, p.value, "IndexError")
    ELSE IF IsNone(p.stack[Len(p.stack)].name)
    THEN PushKey(Parse(SubSeq(p.stack, 1, Len(p.stack) - 1), p.value, p.status), name)
    ELSE PushKey(Store(p, SubSeq(p.stack, 1, Len(p.stack) - 1), p.stack[Len(p.stack)]),
                 name)

\* the body of the loop of parse for one token
OnToken(p, token) ==
    IF p.status # "running" THEN p
    ELSE IF token.type = "indent"
    THEN Parse(Append(p.stack, StackFrame(None, NoValue)), p.value, p.status)
    ELSE IF token.type = "dedent" THEN OnDedent(p)
    ELSE IF token.type = "key" THEN OnKey(p, token.value)
    ELSE IF Len(p.stack) = 0 THEN Parse(p.stack, p.value, "IndexError")
    ELSE Parse(SetTopValue(p.stack, S(token.value)), p.value, p.status)

RECURSIVE OnTokens(_, _)
OnTokens(p, tokens) ==
    IF Len(tokens) = 0 THEN p ELSE OnTokens(OnToken(p, Head(tokens)), Tail(tokens))

\* how parse ends when the token stream ends the given way
Ended(p, how) == IF p.status = "running" THEN Parse(p.stack, p.value, how) ELSE p

-----------------------------------------------------------------------------
(* One stream read by tokenize, its tokens consumed by Parser.parse *)

Indents == {"", "  ", "    "}
Contents == {"f:", "a, b:", "a, b: x", "t"}

\* the physical lines a stream is made of
LineSet ==
    {indent \o content : indent \in Indents, content \in Contents}
        \cup {"    # c", "  ", ": x", "k: v\\"}

\* the physical lines that follow a line ending with a backslash
NextLines == {"  w", "y: z"}

\* what stream.readline() may return after the given line, when it is called
Following(line) == IF PhysicalLines(line) = 2 THEN NextLines ELSE {""}

LxInit ==
    /\ lx_doc = <<>>
    /\ lx_lineno = 0
    /\ lx_indent_stack = <<0>>
    /\ lx_tokens = <<>>
    /\ lx_state = "scanning"
    /\ lx_err = NoParseError
    /\ lx_step = NoStep
    /\ px_stack = <<StackFrame(None, RootValue), StackFrame(None, NoValue)>>
    /\ px_value = <<>>
    /\ px_status = "running"

LxParked ==
    /\ lx_doc = <<>>
    /\ lx_lineno = 0
    /\ lx_indent_stack = <<>>
    /\ lx_tokens = <<>>
    /\ lx_state = "none"
    /\ lx_err = NoParseError
    /\ lx_step = NoStep
    /\ px_stack = <<>>
    /\ px_value = <<>>
    /\ px_status = "none"

\* the parser is left in the given state
Parsed(p) ==
    /\ px_stack' = p.stack
    /\ px_value' = p.value
    /\ px_status' = p.status

\* the parser takes the tokens of one step of the scanner
Consume(tokens, how) ==
    Parsed(Ended(OnTokens(Parse(px_stack, px_value, px_status), tokens), how))

\* the scanner raises ParseError after yielding the given tokens
Raise(tokens, msg, lineno) ==
    /\ lx_tokens' = lx_tokens \o tokens
    /\ lx_state' = "error"
    /\ lx_err' = ParseError(msg, lineno)
    /\ lx_lineno' = lineno
    /\ Consume(tokens, "ParseError")

\* the scanner yields the given tokens and goes on to the next line
Yield(tokens, lineno) ==
    /\ lx_tokens' = lx_tokens \o tokens
    /\ lx_lineno' = lineno
    /\ Consume(tokens, "running")
    /\ UNCHANGED <<lx_state, lx_err>>

\* a blank line or a comment: one pass of the loop that only counts the line
SkipLine(line) ==
    /\ lx_doc' = Append(lx_doc, line)
    /\ lx_lineno' = lx_lineno + 1
    /\ lx_step' = [kind |-> "skip", level |-> IndentLevel(line),
                   before |-> lx_indent_stack, moves |-> <<>>]
    /\ UNCHANGED <<lx_indent_stack, lx_tokens, lx_state, lx_err,
                   px_stack, px_value, px_status>>

\* a line with content: its indentation, then its keys and text
ContentLine(line, next, level, moves, part) ==
    /\ lx_indent_stack' = AfterIndentation(lx_indent_stack, level)
    /\ lx_step' = [kind |-> "line", level |-> level,
                   before |-> lx_indent_stack, moves |-> moves]
    /\ IF BadIndentation(lx_indent_stack, level)
       THEN /\ lx_doc' = Append(lx_doc, line)
            /\ Raise(moves, "Bad indentation", lx_lineno + 1)
       ELSE /\ lx_doc' = IF PhysicalLines(line) = 2 THEN lx_doc \o <<line, next>>
                         ELSE Append(lx_doc, line)
            /\ IF MissingKeyword(part)
               THEN Raise(moves, "Missing keyword", lx_lineno + PhysicalLines(line))
               ELSE Yield(moves \o PartTokens(part), lx_lineno + PhysicalLines(line))

\* one pass of the loop of tokenize over a line of the stream
ScanLine(line, next) ==
    /\ lx_state = "scanning"
    /\ lx_lineno + PhysicalLines(line) <= MaxLines
    /\ IF IsBlankLine(line) \/ IsCommentLine(line)
       THEN SkipLine(line)
       ELSE ContentLine(line, next, IndentLevel(line),
                        IndentationTokens(lx_indent_stack, IndentLevel(line)),
                        Partition(LogicalLine(line, next)))
    /\ UNCHANGED NotLx

\* a DEDENT for every level above the base only
FinalDedentsAboveBase(stack) == [i \in 1..(Len(stack) - 1) |-> TokenDEDENT]

\* while indent_stack: yield Token.DEDENT; indent_stack.pop()
FinalDedents(stack) == [i \in 1..Len(stack) |-> TokenDEDENT]

\* the end of the stream: one DEDENT for every level on the stack
EndOfStream ==
    /\ lx_state = "scanning"
    /\ lx_indent_stack' = <<>>
    /\ lx_tokens' = lx_tokens \o FinalDedents(lx_indent_stack)
    /\ lx_lineno' = lx_lineno + 1
    /\ lx_state' = "done"
    /\ lx_step' = [kind |-> "eof", level |-> 0, before |-> lx_indent_stack,
                   moves |-> FinalDedents(lx_indent_stack)]
    /\ Consume(FinalDedents(lx_indent_stack), "returned")
    /\ UNCHANGED <<lx_doc, lx_err>>
    /\ UNCHANGED NotLx

-----------------------------------------------------------------------------
(* Specifications *)

GParked ==
    /\ g_class = "none"
    /\ g_placement = "preamble"
    /\ g_funcs = <<>>
    /\ g_ignore_cache = <<>>
    /\ g_block_cache = <<>>
    /\ g_out = NoOutput
    /\ g_calls = <<>>
    /\ g_first = <<>>
    /\ g_ret = {}
    /\ g_seen = <<>>
    /\ g_made = <<>>
    /\ g_loads = 0
    /\ g_gens = 0

RcParked ==
    /\ rc_fn = [obj |-> <<>>, ignored_by |-> {}, return_type |-> "ERROR"]
    /\ rc_types = <<>>
    /\ rc_chunk = [st |-> "none", text |-> ""]
    /\ rc_load = [done |-> FALSE, prev |-> <<>>, src |-> <<>>]
    /\ rr_out = [st |-> "none", kind |-> "", written |-> <<>>]

PsParked ==
    /\ ps_in = <<>>
    /\ ps_spec = [st |-> "none", val |-> <<>>]

PcParked ==
    /\ pc_fn = <<>>
    /\ pc_param_cache = <<>>
    /\ pc_deps_cache = <<>>
    /\ pc_ret = [st |-> "none", kind |-> "", val |-> <<>>]
    /\ pc_loads = 0

CliParked ==
    /\ cli_args = <<>>
    /\ cli_exit = [how |-> "none", status |-> 0, err |-> ""]
    /\ cli_made = 0
    /\ cli_opened = 0

JobParked ==
    /\ job_class = ""
    /\ job_funcs = <<>>
    /\ job_types = <<>>
    /\ job_out = [st |-> "none", kind |-> "", calls |-> <<>>, items |-> <<>>]

PyParked ==
    /\ py_out = [st |-> "none", kind |-> "", args |-> <<>>, written |-> <<>>, merges |-> 0]
    /\ py_gens = 0

\* the descriptor of stimulus/model/functions.py under merges and reads
InitFD == FdInit /\ GParked /\ RcParked /\ LxParked /\ PsParked /\ PcParked /\ CliParked /\ JobParked /\ PyParked
NextFD ==
    \/ \E src \in FuncSources : UpdateFrom(src)
    \/ ReadParameters
SpecFD == InitFD /\ [][NextFD]_vars

\* the descriptor under merges, reads and iterations of the reordered parameters
NextIter ==
    \/ \E src \in IterSources : UpdateFrom(src)
    \/ ReadParameters
    \/ \E which \in {"all", "input"} : IterReordered(which)
SpecIter == InitFD /\ [][NextIter]_vars

-----------------------------------------------------------------------------
(* The descriptor's claims, checked under SpecFD *)

\* the parameter names a source's PARAMS declares, in declaration order
DeclaredNames(src) ==
    LET items == ItemsOf(src, "PARAMS")
    IN  Keys(PutAll(<<>>, [i \in 1..Len(items) |-> Get(FromString(items[i]))]))

\* C1: when a descriptor that already has PARAMS is merged with a source that
\* also defines PARAMS, the parameters map read afterwards holds exactly the
\* parameters the second source declares, in its declaration order, and every
\* attribute the descriptor had that the second source does not mention is
\* still there with its value.
C1_SecondParamsReplaceFirst ==
    ("PARAMS" \in DOMAIN fd_prev /\ "PARAMS" \in DOMAIN fd_src) =>
        /\ fd_read.st = "ok" => Keys(fd_read.val) = DeclaredNames(fd_src)
        /\ \A k \in DOMAIN fd_prev \ DOMAIN fd_src :
                k \in DOMAIN fd_obj /\ SameValue(fd_obj[k], fd_prev[k])

\* a second PARAMS, declaring other names than the first, has been merged over
\* a descriptor that also had another attribute, and the parameters were read
C1_Witness ==
    /\ "PARAMS" \in DOMAIN fd_prev /\ "PARAMS" \in DOMAIN fd_src
    /\ fd_prev["PARAMS"].t = "list" /\ fd_src["PARAMS"].t = "list"
    /\ DeclaredNames(fd_prev) # DeclaredNames(fd_src)
    /\ DOMAIN fd_prev \ DOMAIN fd_src # {}
    /\ fd_read.st = "ok"

\* C2: every read of `parameters` returns the map derived from the raw
\* attributes as they stand at the time of the read; a map cached by an earlier
\* read is not returned once a merge has written PARAMS, DEPS, PARAM_NAMES or
\* PARAM_ORDER.
C2_ReadIsDerivedFromCurrentRaw ==
    fd_read.st = "ok" =>
        /\ ParseParameterSpecifications(fd_obj).ok
        /\ fd_read.val = ParseParameterSpecifications(fd_obj).val

\* the cache was filled, a merge then wrote DEPS and changed what is derived,
\* and the parameters were read again
C2_Witness ==
    /\ fd_was_cached
    /\ "DEPS" \in DOMAIN fd_src
    /\ fd_read.st = "ok"
    /\ ParseParameterSpecifications(fd_prev).ok
    /\ ParseParameterSpecifications(fd_prev).val # fd_read.val

\* the (declaring parameter, dependency) pairs of the stored DEPS whose
\* dependency is not a parameter the stored PARAMS declares
DanglingDependencies(obj) ==
    LET deps == ParseDependencies(obj)
    IN  IF ~deps.ok THEN {}
        ELSE UNION { {<<deps.val[i].name, d>> :
                        d \in Range(deps.val[i].values) \ Range(DeclaredNames(obj))} :
                     i \in 1..Len(deps.val) }

\* C3: deriving the parameters of a function whose DEPS has an item `a ON b`
\* with b not declared in PARAMS fails; it never succeeds with b recorded as a
\* dependency.
C3_DanglingDependencyRaises ==
    DanglingDependencies(fd_obj) # {} => fd_read.st # "ok"

\* the entries of PARAM_ORDER, trimmed
ListedOrder(obj) == StripAll(ItemsOf(obj, "PARAM_ORDER"))

\* PARAM_ORDER names distinct declared parameters and has at most one `...`
ValidParamOrder(obj) ==
    LET listed == ListedOrder(obj)
    IN  /\ \A i \in 1..Len(listed) :
                listed[i] = "..." \/ listed[i] \in Range(DeclaredNames(obj))
        /\ \A i, j \in 1..Len(listed) : i # j => listed[i] # listed[j]

\* the order PARAM_ORDER prescribes: the listed names as listed, the others in
\* declaration order where the `...` stands, or last when there is none
PrescribedOrder(obj) ==
    LET listed == ListedOrder(obj)
        declared == DeclaredNames(obj)
        unlisted == SelectNames(declared, Range(declared) \ Range(listed))
        dots == {i \in 1..Len(listed) : listed[i] = "..."}
    IN  IF dots = {} THEN listed \o unlisted
        ELSE SubSeq(listed, 1, SetMin(dots) - 1) \o unlisted
                \o SubSeq(listed, SetMin(dots) + 1, Len(listed))

\* C4: for a valid PARAM_ORDER the derived order is a permutation of the
\* declared names with the listed names in listed order and the unlisted ones,
\* in declaration order, as one run at the `...` (or last without `...`); with
\* no PARAM_ORDER it is the declaration order.
C4_OrderIsPrescribedOrder ==
    (fd_read.st = "ok" /\ ValidParamOrder(fd_obj)) =>
        /\ fd_param_order = PrescribedOrder(fd_obj)
        /\ Len(fd_param_order) = Len(fd_read.val)
        /\ Range(fd_param_order) = Range(Keys(fd_read.val))
        /\ "PARAM_ORDER" \notin DOMAIN fd_obj => fd_param_order = Keys(fd_read.val)

\* `b, ..., a` over the declared a, b, c has been derived as b, c, a
C4_Witness ==
    /\ fd_read.st = "ok"
    /\ ListedOrder(fd_obj) = <<"b", "...", "a">>
    /\ Keys(fd_read.val) = <<"a", "b", "c">>
    /\ fd_param_order = <<"b", "c", "a">>

\* C11: when the merged source defines PARAM_NAMES, the stored PARAM_NAMES is
\* afterwards exactly the mapping of that source, and when the parameters are
\* next derived no parameter carries an override that only an earlier source
\* defined.
C11_ParamNamesAreReplaced ==
    "PARAM_NAMES" \in DOMAIN fd_src =>
        /\ "PARAM_NAMES" \in DOMAIN fd_obj
        /\ SameValue(fd_obj["PARAM_NAMES"], fd_src["PARAM_NAMES"])
        /\ fd_read.st = "ok" =>
                \A i \in 1..Len(fd_read.val) :
                    ~HasKey(fd_src["PARAM_NAMES"].v, fd_read.val[i].name)
                        => IsNone(fd_read.val[i].name_override)

\* the stored PARAM_NAMES mapping, empty when there is none
StoredParamNames(obj) ==
    IF "PARAM_NAMES" \in DOMAIN obj THEN obj["PARAM_NAMES"].v ELSE <<>>

\* the display name PARAM_NAMES prescribes for a parameter
PrescribedOutputName(obj, param) ==
    IF HasKey(StoredParamNames(obj), param.name)
       /\ Lookup(StoredParamNames(obj), param.name).value # ""
    THEN Lookup(StoredParamNames(obj), param.name).value
    ELSE param.name

\* C12: after the parameters are derived, name_as_output of every parameter
\* is the non-empty new name PARAM_NAMES gives it, or else its declared name;
\* a PARAM_NAMES key that is no declared parameter makes the derivation fail.
C12_OverridesAreOutputNames ==
    /\ fd_read.st = "ok" =>
            \A i \in 1..Len(fd_read.val) :
                name_as_output(fd_read.val[i]) = PrescribedOutputName(fd_obj, fd_read.val[i])
    /\ (\E i \in 1..Len(StoredParamNames(fd_obj)) :
            StoredParamNames(fd_obj)[i].name \notin Range(DeclaredNames(fd_obj)))
        => fd_read.st # "ok"

\* the positions of PARAM_ORDER that hold a name, other than `...`, which is
\* no declared parameter or was listed before
OrderFaultsIn(order, declared) ==
    {i \in 1..Len(order) :
        /\ order[i] # "..."
        /\ \/ order[i] \notin declared
           \/ \E j \in 1..(i - 1) : order[j] = order[i]}

OrderFaults(obj) == OrderFaultsIn(ListedOrder(obj), Range(DeclaredNames(obj)))

\* C13: a read of `parameters` that derives the order of a function whose
\* PARAM_ORDER lists a parameter twice, or lists a name other than `...` that
\* is no declared parameter, raises an error.
C13_BadOrderRaises ==
    [][(/\ IsNone(fd_parameters)
        /\ fd_read'.st # "none"
        /\ ParseParameterSpecifications(fd_obj).ok
        /\ OrderFaults(fd_obj) # {})
            => (fd_read'.st = "raised"
                /\ fd_read'.err.kind = "appears twice in PARAM_ORDER"
                /\ fd_read'.err.arg = ListedOrder(fd_obj)[SetMin(OrderFaults(fd_obj))])]_vars

\* the order `a, a` over a function that declares a has been derived, and
\* the read raised for a
C13_Witness ==
    /\ ListedOrder(fd_obj) = <<"a", "a">>
    /\ "a" \in Range(DeclaredNames(fd_obj))
    /\ fd_read.st = "raised"
    /\ fd_read.err.kind = "appears twice in PARAM_ORDER"
    /\ fd_read.err.arg = "a"

\* an iteration that ended has yielded the parameters in the given order
IterationAgrees(iter, parameters, order) ==
    order.ok =>
        /\ iter.st = "ok"
        /\ iter.names = YieldedNames(parameters, order.val, iter.which)

\* an iteration agrees with the order derived afresh from the raw map
IterationAgreesWith(iter, parsed, obj) ==
    parsed.ok => IterationAgrees(iter, parsed.val, UpdateParameterOrder(parsed.val, obj))

\* C23: after any sequence of update_from calls, an iteration of the
\* reordered parameters yields every parameter of the current parameters map
\* exactly once, in the order PARAM_ORDER prescribes, also when the iteration
\* is the first access after construction or after a merge; it never yields
\* an empty or stale sequence.
C23_ReorderedIterationIsComplete ==
    fd_iter.st # "none" =>
        IterationAgreesWith(fd_iter, ParseParameterSpecifications(fd_obj), fd_obj)

\* C27: when a read of `parameters` has raised, every later read of
\* `parameters` and every later iteration of the reordered parameters, with
\* no merge in between, raises again.
C27_FailedReadFailsAgain ==
    [][(fd_read.st = "raised" /\ fd_merged' = fd_merged)
            => (fd_read'.st = "raised" /\ fd_iter'.st \in {"none", "raised"})]_vars

\* the RETURN of the most recent source that carried a non-empty one
RECURSIVE LastReturn(_)
LastReturn(merged) ==
    IF Len(merged) = 0 THEN "ERROR"
    ELSE IF "RETURN" \in DOMAIN merged[Len(merged)] /\ merged[Len(merged)]["RETURN"].v # ""
    THEN merged[Len(merged)]["RETURN"].v
    ELSE LastReturn(SubSeq(merged, 1, Len(merged) - 1))

\* C14: after any sequence of update_from calls the raw attribute map has no
\* key RETURN, and return_type is the RETURN of the most recent merged source
\* that carried a non-empty one, or "ERROR" when none did.
C14_ReturnIsPoppedIntoReturnType ==
    /\ "RETURN" \notin DOMAIN fd_obj
    /\ fd_return_type = LastReturn(fd_merged)

\* sources with RETURN INT, then BOOL, then an empty RETURN have been merged
C14_Witness ==
    /\ Len(fd_merged) = 3
    /\ \A i \in 1..3 : "RETURN" \in DOMAIN fd_merged[i]
    /\ fd_merged[1]["RETURN"].v = "INT"
    /\ fd_merged[2]["RETURN"].v = "BOOL"
    /\ fd_merged[3]["RETURN"].v = ""
    /\ fd_return_type = "BOOL"

\* the space-separated names after ON of one DEPS item
ListedDependencies(item) ==
    SelectSeq(Split(Strip(Split1(Strip(item), "ON")[2]), " "), LAMBDA w : w # "")

\* C17: for every DEPS item `p ON d1 d2 ... dk` the derived dependency list of
\* p is d1, ..., dk in that order, so that the placeholder index n refers to
\* dn.
C17_DependenciesAreListedNames ==
    fd_read.st = "ok" =>
        \A i \in 1..Len(ItemsOf(fd_obj, "DEPS")) :
            Lookup(fd_read.val, Strip(Split1(Strip(ItemsOf(fd_obj, "DEPS")[i]), "ON")[1])).dependencies
                = ListedDependencies(ItemsOf(fd_obj, "DEPS")[i])

\* one generator of stimulus/generators/base.py under loads, ignore queries
\* and generate() calls
FdParked == FdInit
InitGen == GInit /\ FdParked /\ RcParked /\ LxParked /\ PsParked /\ PcParked /\ CliParked /\ JobParked /\ PyParked
NextGen ==
    \/ \E obj \in LoadSources : LoadFunctionDescriptors(obj)
    \/ \E name \in FunctionNames : CallShouldIgnoreFunction(name)
    \/ \E inputs \in InputLists : GenerateSingleBlock(inputs)
    \/ \E inputs \in InputLists : GenerateBlockBased(inputs)
SpecGen == InitGen /\ [][NextGen]_vars

-----------------------------------------------------------------------------
(* Claims about the generators of stimulus/generators/base.py, under SpecGen *)

\* the items generate_function writes for the names of a sequence
FunctionItems(names) == [i \in 1..Len(names) |-> FunctionItem(names[i])]

\* the items of the latest output that replaced a marker of the block
BlockItems(out, name) ==
    {i \in 1..Len(out.items) : out.items[i].kind = "block" /\ out.items[i].name = name}

\* C5: within one generator a block handler runs at most once per block name
\* however many marker lines, over all files and generate() calls, name the
\* block; the content kept for a block never changes, every marker of the
\* block is replaced by that content, and a marker without a name is
\* replaced by the block `functions`.
C5_HandlerOncePerBlock ==
    [][/\ \A n \in DOMAIN g_calls' : g_calls'[n] <= 1
       /\ \A n \in DOMAIN g_block_cache :
            n \in DOMAIN g_block_cache' /\ g_block_cache'[n] = g_block_cache[n]
       /\ g_out'.kind = "block" =>
            \A i \in 1..Len(g_out'.items) :
               /\ g_out'.items[i].kind = "block" =>
                    g_out'.items[i].content = g_block_cache'[g_out'.items[i].name]
               /\ AllLines(g_out'.inputs)[i] = "% STIMULUS %" =>
                    /\ g_out'.items[i].kind = "block"
                    /\ g_out'.items[i].name = "functions"]_vars

\* a second generate() call, after the catalog has changed, replaced a named
\* and a nameless marker of `functions` by the content of the first call
C5_Witness ==
    /\ g_out.kind = "block"
    /\ g_gens = 2
    /\ ~g_out.raised
    /\ Cardinality(BlockItems(g_out, "functions")) >= 2
    /\ BlockItems(g_out, "extra") # {}
    /\ g_calls["functions"] = 1
    /\ g_block_cache["functions"] # <<>>
    /\ g_block_cache["functions"] # FunctionsBlock(<<>>, g_funcs, g_class)

\* C6: after any sequence of merges into one descriptor, ignored_by is the
\* union of the comma-split, trimmed IGNORE entries of every merged source.
C6_IgnoredByIsUnionOfSources ==
    \A i \in 1..Len(g_funcs) : g_funcs[i].desc.ignored_by = g_seen[g_funcs[i].name]

\* C7: once should_ignore_function has returned a value for a name, every
\* later call for that name returns the same value, whatever ignored_by has
\* become in between.
C7_ShouldIgnoreIsMemoized ==
    \A r \in g_ret : r.name \in DOMAIN g_first /\ r.value = g_first[r.name]

\* a call returned the first value although a later load had changed
\* ignored_by to the opposite
C7_Witness ==
    \E r \in g_ret :
        /\ g_loads = 2
        /\ HasKey(g_funcs, r.name)
        /\ r.value # ShouldIgnoreNow(g_funcs, g_class, r.name)

\* C8 as stated: generate writes the inputs if the placement is PREAMBLE, then
\* generate_function's output for exactly the functions whose ignored_by does
\* not hold the backend's name, in catalog order, then the inputs if the
\* placement is EPILOGUE.
C8_WritesUnignoredFunctions ==
    g_out.kind = "single" =>
        g_out.items = PlacedInputs(g_placement, "preamble", g_out.inputs)
                        \o FunctionItems(g_out.unignored)
                        \o PlacedInputs(g_placement, "epilogue", g_out.inputs)

\* the names of the output's catalog for which should_ignore_function first
\* returned false
KeptByMemo(out, first) ==
    SelectNames(out.names, {n \in Range(out.names) : n \in DOMAIN first /\ ~first[n]})

\* C8 amended: the functions written are exactly those for which
\* should_ignore_function returns false, which is the memoized answer of the
\* first check for the name, each once and in catalog order; the inputs come
\* once, before them for PREAMBLE and after them for EPILOGUE.
C8_WritesFunctionsKeptByMemo ==
    g_out.kind = "single" =>
        /\ Range(g_out.names) \subseteq DOMAIN g_first
        /\ g_out.items =
             (IF g_placement = "preamble" THEN AppendInputs(g_out.inputs) ELSE <<>>)
                \o FunctionItems(KeptByMemo(g_out, g_first))
                \o (IF g_placement = "epilogue" THEN AppendInputs(g_out.inputs) ELSE <<>>)

\* an output with the inputs after the functions, one function left out and
\* one written, where the memo and ignored_by disagree about a function
C8_Witness ==
    /\ g_out.kind = "single"
    /\ g_placement = "epilogue"
    /\ Len(g_out.inputs) = 2
    /\ KeptByMemo(g_out, g_first) # <<>>
    /\ KeptByMemo(g_out, g_first) # g_out.names
    /\ KeptByMemo(g_out, g_first) # g_out.unignored

\* C18: across any sequence of loads the catalog lists the function names in
\* the order of their first mention, and a load that mentions a known name
\* updates the descriptor object made at the first mention: no name ever gets
\* a second descriptor object.
C18_DescriptorsUpdatedInPlace ==
    /\ Keys(g_funcs) = Keys(g_made)
    /\ \A i \in 1..Len(g_made) : g_made[i].made = 1

-----------------------------------------------------------------------------
(* stimulus/generators/base.py and r.py: the output conversions of the R C
   generator *)

\* s.replace(old, new)
RECURSIVE Replace(_, _, _)
Replace(s, old, new) ==
    IF Find(s, old) = 0 THEN s
    ELSE SubSeq(s, 1, Find(s, old) - 1) \o new
            \o Replace(SubSeq(s, Find(s, old) + Len(old), Len(s)), old, new)

\* sep.join(seq)
RECURSIVE Join(_, _)
Join(seq, sep) ==
    IF Len(seq) = 0 THEN ""
    ELSE IF Len(seq) = 1 THEN seq[1]
    ELSE seq[1] \o sep \o Join(Tail(seq), sep)

\* ParamMode(mode.lower()) and mode_str of generators/base.py: the mode is
\* kept as its upper-case name
OldModes == {"IN", "OUT", "INOUT"}

\* lines 330-333: the mode, the type and the rest of one item
OldModeParts(parts) ==
    IF parts[1] \in OldModes THEN <<parts[1]>> \o Split1(parts[2], " ")
    ELSE <<"IN", parts[1]>> \o Split1(parts[2], " ")

\* lines 334-335: a default is split off the name
OldDefaultParts(parts) ==
    IF Contains(parts[3], "=") THEN SubSeq(parts, 1, 2) \o Split1(parts[3], "=")
    ELSE parts

\* lines 338-346: the ParamSpec of one item
OldParamSpec(parts) ==
    [name |-> parts[3], type |-> parts[2], mode |-> parts[1],
     default |-> IF Len(parts) > 3 THEN Some(parts[4]) ELSE None]

\* one item of PARAMS, lines 326-336; an item of fewer than three words for
\* an explicit mode, or fewer than two without one, raises
OldParseItem(item) ==
    IF Len(Split1(Strip(item), " ")) < 2 THEN Failed(Error("IndexError", item, ""))
    ELSE IF Len(OldModeParts(Split1(Strip(item), " "))) < 3
    THEN Failed(Error("IndexError", item, ""))
    ELSE Done(OldParamSpec(StripAll(OldDefaultParts(OldModeParts(Split1(Strip(item), " "))))))

OldParseItems(items) == [i \in 1..Len(items) |-> OldParseItem(items[i])]

OldCollect(parsed) ==
    IF \E i \in 1..Len(parsed) : ~parsed[i].ok THEN Failed(Error("IndexError", "", ""))
    ELSE Done(PutAll(<<>>, [i \in 1..Len(parsed) |-> parsed[i].val]))

\* CodeGeneratorBase._parse_parameter_specification
OldParseParameterSpecification(desc) ==
    OldCollect(OldParseItems(IF GetOrEmpty(desc.obj, "PARAMS") # ""
                             THEN Split(desc.obj["PARAMS"], ",") ELSE <<>>))

\* lines 352-355 on one item of DEPS
OldDependencyValues(parts) ==
    [name |-> parts[1], value |-> StripAll(Split1(parts[2], " "))]

OldParseDependency(item) ==
    IF Len(Split1(Strip(item), "ON")) < 2 THEN Failed(Error("IndexError", item, ""))
    ELSE Done(OldDependencyValues(StripAll(Split1(Strip(item), "ON"))))

OldParseDependencies(items) == [i \in 1..Len(items) |-> OldParseDependency(items[i])]

\* CodeGeneratorBase._parse_dependency_specification
OldParseDependencySpecification(desc) ==
    OldCollect(OldParseDependencies(IF GetOrEmpty(desc.obj, "DEPS") # ""
                                    THEN Split(desc.obj["DEPS"], ",") ELSE <<>>))

\* ParamSpec.is_output of generators/base.py
OldIsOutput(param) == param.mode \in {"OUT", "INOUT"}

\* retpars, r.py line 455
RetPars(params) ==
    SelectNames(Keys(params), {params[i].name : i \in {j \in 1..Len(params) : OldIsOutput(params[j])}})

\* lines 446-449: %C<i>% is replaced by the C name of the i-th dependency
RECURSIVE ReplaceDeps(_, _, _)
ReplaceDeps(outconv, deps, i) ==
    IF i > Len(deps) THEN outconv
    ELSE ReplaceDeps(Replace(outconv, "%C" \o ToString(i) \o "%", "c_" \o deps[i]), deps, i + 1)

\* lines 441-444: the template of the parameter's type for its mode
OutconvTemplate(t, mode) ==
    IF "OUTCONV" \in DOMAIN t /\ mode \in DOMAIN t["OUTCONV"]
    THEN "  " \o t["OUTCONV"][mode] ELSE ""

\* do_par of chunk_outconv, lines 437-450
DoPar(param, types, deps) ==
    Replace(Replace(ReplaceDeps(OutconvTemplate(types[param.type], param.mode),
                                IF HasKey(deps, param.name)
                                THEN Lookup(deps, param.name).value ELSE <<>>, 1),
                    "%C%", "c_" \o param.name),
            "%I%", param.name)

\* lines 452-453
Outconv(params, types, deps) ==
    SelectSeq([i \in 1..Len(params) |-> DoPar(params[i], types, deps)],
              LAMBDA o : o # "")


\* lines 459-463: the conversion of the returned value
Retconv(rt) ==
    Replace(Replace(IF "OUTCONV" \in DOMAIN rt THEN "  " \o rt["OUTCONV"]["OUT"] ELSE "",
                    "%C%", "c_result"),
            "%I%", "result")

\* lines 471-477
Sets(retpars) ==
    [i \in 1..Len(retpars) |->
        "  SET_VECTOR_ELT(result, " \o ToString(i - 1) \o ", " \o retpars[i] \o ");"]

\* lines 478-488
Names(retpars) ==
    [i \in 1..Len(retpars) |->
        "  SET_STRING_ELT(names, " \o ToString(i - 1) \o ", CREATE_STRING_VECTOR(\""
            \o retpars[i] \o "\"));"]

\* lines 489-499: the named list of the output values
OutputList(outconv, retpars) ==
    Join(<<"  PROTECT(result=NEW_LIST(" \o ToString(Len(retpars)) \o "));",
           "  PROTECT(names=NEW_CHARACTER(" \o ToString(Len(retpars)) \o "));">>
            \o outconv \o Sets(retpars) \o Names(retpars)
            \o <<"  SET_NAMES(result, names);">>
            \o <<"  UNPROTECT(" \o ToString(Len(Sets(retpars)) + 1) \o ");">>,
         "\n")

\* line 465 written `len(retpars) >= 1`
AtLeastOneOutput(retpars) == Len(retpars) >= 1

\* line 465: there is a single output value
SingleOutput(retpars) == Len(retpars) = 1

Skipped == [st |-> "skipped", text |-> ""]
KeyError == [st |-> "raised", text |-> ""]
Chunk(text) == [st |-> "ok", text |-> text]

\* the branches of chunk_outconv, lines 456-499; a return type that is not in
\* the catalog, or whose OUTCONV has no OUT entry, is a KeyError
ChunkFor(outconv, retpars, types, return_type) ==
    IF Len(retpars) = 0
    THEN IF return_type \notin DOMAIN types THEN KeyError
         ELSE IF "OUTCONV" \in DOMAIN types[return_type]
                 /\ "OUT" \notin DOMAIN types[return_type]["OUTCONV"] THEN KeyError
         ELSE Chunk(Join(outconv, "\n") \o "\n" \o Retconv(types[return_type]))
    ELSE IF SingleOutput(retpars)
    THEN Chunk(Join(outconv, "\n") \o "\n" \o "  result=" \o retpars[1] \o ";")
    ELSE Chunk(OutputList(outconv, retpars))

\* RCCodeGenerator.chunk_outconv
ChunkOutconv(params, types, deps, return_type) ==
    ChunkFor(Outconv(params, types, deps), RetPars(params), types, return_type)

\* RCCodeGenerator.generate_function up to its output conversions: a
\* parameter of an unknown type ends it with a logged error, lines 238-243,
\* and chunk_declaration, line 338, raises KeyError for a return type that is
\* not in the catalog
OutconvOfParsed(params, deps, types, return_type) ==
    IF ~params.ok \/ ~deps.ok
    THEN KeyError
    ELSE IF \E i \in 1..Len(params.val) : params.val[i].type \notin DOMAIN types
    THEN Skipped
    ELSE IF return_type \notin DOMAIN types
    THEN KeyError
    ELSE ChunkOutconv(params.val, types, deps.val, return_type)

\* lines 236-237 and 239-257: the parameters and dependencies are parsed once
GenerateFunctionOutconv(desc, types) ==
    OutconvOfParsed(OldParseParameterSpecification(desc),
                    OldParseDependencySpecification(desc), types, desc.return_type)

\* the declarations PARAMS is written from: the mode word, or none, the
\* type and the name of up to three parameters
ModeWords == {"", "IN ", "OUT ", "INOUT "}
ParamWords == <<"DOUBLE a", "INT b", "DOUBLE c=0", "INT d">>
MaxParams == 3

ParamsText(modes) == Join([i \in 1..Len(modes) |-> modes[i] \o ParamWords[i]], ", ")

\* the attributes of a function besides PARAMS
OtherAttributes ==
    { EmptyMap,
      [PARAM_ORDER |-> "..., a"],
      [DEPS |-> "c ON a", PARAM_ORDER |-> "c, ..."] }

\* the type catalogs of the generator
TypeCatalogs ==
    { [INT |-> [CTYPE |-> "int",
                OUTCONV |-> [OUT |-> "PROTECT(%I%=NEW_NUMERIC(1)); REAL(%I%)[0]=%C%;"]],
       DOUBLE |-> [OUTCONV |-> ("OUT" :> "PROTECT(%I%=R_vec(&%C%, %C1%));"
                                @@ "INOUT" :> "PROTECT(%I%=R_vec(&%C%, 0));"
                                @@ "IN" :> "free(&%C%);")],
       VOID |-> [CTYPE |-> "void"]],
      [DOUBLE |-> [CTYPE |-> "double"],
       VOID |-> [OUTCONV |-> ("IN" :> "")]] }

\* the descriptor of a function loaded from one object
RcDescriptor(params, other, ret) ==
    DescriptorUpdateFrom(NewDescriptor,
        DictUpdate(DictUpdate(other, IF params = "" THEN EmptyMap ELSE [PARAMS |-> params]),
                   IF ret = "" THEN EmptyMap ELSE [RETURN |-> ret]))

NoChunk == [st |-> "none", text |-> ""]
NoLoad == [done |-> FALSE, prev |-> <<>>, src |-> <<>>]
NoWrites == [st |-> "none", kind |-> "", written |-> <<>>]

RcInit ==
    /\ \E n \in 0..MaxParams : \E modes \in [1..n -> ModeWords] :
       \E other \in OtherAttributes : \E ret \in {"", "INT", "VOID"} :
            rc_fn = RcDescriptor(ParamsText(modes), other, ret)
    /\ rc_types \in TypeCatalogs
    /\ rc_chunk = NoChunk
    /\ rc_load = NoLoad
    /\ rr_out = NoWrites

\* generate_function for the function, as far as its output conversions
GenerateFunction ==
    /\ rc_chunk.st = "none"
    /\ rc_chunk' = GenerateFunctionOutconv(rc_fn, rc_types)
    /\ UNCHANGED <<rc_fn, rc_types, rc_load, rr_out>>
    /\ UNCHANGED NotRc

\* load_type_descriptors_from_object(types): self.types.update(types)
LoadTypes(types) ==
    /\ rc_chunk.st # "none"
    /\ rc_types' = DictUpdate(rc_types, types)
    /\ rc_chunk' = NoChunk
    /\ rc_load' = [done |-> TRUE, prev |-> rc_types, src |-> types]
    /\ UNCHANGED <<rc_fn, rr_out>>
    /\ UNCHANGED NotRc

\* RCCodeGenerator.generate_function on bounded functions and type catalogs
InitRC == RcInit /\ FdParked /\ GParked /\ LxParked /\ PsParked /\ PcParked /\ CliParked /\ JobParked /\ PyParked
NextRC ==
    \/ GenerateFunction
    \/ \E types \in TypeCatalogs : LoadTypes(types)
SpecRC == InitRC /\ [][NextRC]_vars

-----------------------------------------------------------------------------
(* Claims about the output conversions of the R C generator, under SpecRC *)

\* the lines of a generated chunk
Lines(text) == Split(text, "\n")

\* the lines of a chunk that start with a prefix, in order
LinesWith(lines, prefix) ==
    SelectSeq(lines, LAMBDA l : StartsWith(l, prefix))

\* the number of declarations of a PARAMS text that are marked OUT or INOUT
DeclaredOutputs(desc) ==
    SelectSeq(StripAll(IF GetOrEmpty(desc.obj, "PARAMS") # ""
                       THEN Split(desc.obj["PARAMS"], ",") ELSE <<>>),
              LAMBDA d : StartsWith(d, "OUT ") \/ StartsWith(d, "INOUT "))

\* the name a declaration of the bounded functions declares: its last word,
\* without the default
DeclaredName(decl) ==
    Split1(Split(decl, " ")[Len(Split(decl, " "))], "=")[1]

\* the chunk builds a named list
BuildsList(lines) ==
    \/ LinesWith(lines, "  PROTECT(result=NEW_LIST(") # <<>>
    \/ LinesWith(lines, "  SET_VECTOR_ELT(") # <<>>
    \/ LinesWith(lines, "  SET_STRING_ELT(") # <<>>
    \/ LinesWith(lines, "  SET_NAMES(") # <<>>

\* the OUT template of a type with the C return value for %C% and the result
\* for %I%; nothing when the type declares no output conversion
ReturnConversion(rt) ==
    IF "OUTCONV" \in DOMAIN rt
    THEN "  " \o Replace(Replace(rt["OUTCONV"]["OUT"], "%C%", "c_result"), "%I%", "result")
    ELSE ""

\* C9: with k the number of OUT or INOUT parameters, a generated chunk ends,
\* for k = 0, with the return type's OUT conversion of the C return value
\* into the result and builds no list; for k = 1 it ends by making the result
\* that parameter's converted value and builds no list; for k > 1 it builds
\* a named list of exactly k values and k names and never assigns the result
\* from one parameter.
C9_AggregationPolicy ==
    rc_chunk.st = "ok" =>
        LET k == Len(DeclaredOutputs(rc_fn))
            lines == Lines(rc_chunk.text)
        IN  /\ k = 0 =>
                /\ lines[Len(lines)] = ReturnConversion(rc_types[rc_fn.return_type])
                /\ ~BuildsList(lines)
            /\ k = 1 =>
                /\ lines[Len(lines)] =
                      "  result=" \o DeclaredName(DeclaredOutputs(rc_fn)[1]) \o ";"
                /\ ~BuildsList(lines)
            /\ k > 1 =>
                /\ lines[1] = "  PROTECT(result=NEW_LIST(" \o ToString(k) \o "));"
                /\ Len(LinesWith(lines, "  SET_VECTOR_ELT(result, ")) = k
                /\ Len(LinesWith(lines, "  SET_STRING_ELT(names, ")) = k
                /\ Len(LinesWith(lines, "  SET_NAMES(result, names);")) = 1
                /\ LinesWith(lines, "  result=") = <<>>

\* a chunk for three parameters of which exactly one is an output, whose
\* conversion precedes the assignment of the result
C9_Witness ==
    /\ rc_chunk.st = "ok"
    /\ Len(Split(GetOrEmpty(rc_fn.obj, "PARAMS"), ",")) = 3
    /\ Len(DeclaredOutputs(rc_fn)) = 1
    /\ Len(Lines(rc_chunk.text)) >= 3
    /\ ~BuildsList(Lines(rc_chunk.text))

\* the keys of the named list a chunk builds, in order
AggregateKeys(lines) ==
    [i \in 1..Len(LinesWith(lines, "  SET_STRING_ELT(names, ")) |->
        Split1(Split1(LinesWith(lines, "  SET_STRING_ELT(names, ")[i], "(\"")[2], "\"")[1]]

\* the values of the named list a chunk builds, in order
AggregateValues(lines) ==
    [i \in 1..Len(LinesWith(lines, "  SET_VECTOR_ELT(result, ")) |->
        Split1(Split(LinesWith(lines, "  SET_VECTOR_ELT(result, ")[i], ", ")[3], ")")[1]]

\* the attributes of a descriptor as model/functions.py reads them
AsAttributes(desc) == [k \in DOMAIN desc.obj |-> S(desc.obj[k])]

\* the OUT and INOUT parameters of the function in its reordered sequence
ReorderedOutputs(parameters, order) ==
    SelectSeq([i \in 1..Len(order) |-> Lookup(parameters, order[i])], is_output)

\* C10: a function with more than one OUT or INOUT parameter gets a named
\* list whose keys are the display names of these parameters, whose i-th
\* value and i-th key belong to the same parameter, and whose entries are in
\* the function's reordered (PARAM_ORDER) parameter sequence.
C10_AggregateInReorderedSequence ==
    (/\ rc_chunk.st = "ok"
     /\ Len(DeclaredOutputs(rc_fn)) > 1
     /\ ParseParameterSpecifications(AsAttributes(rc_fn)).ok
     /\ UpdateParameterOrder(ParseParameterSpecifications(AsAttributes(rc_fn)).val,
                             AsAttributes(rc_fn)).ok) =>
        LET parameters == ParseParameterSpecifications(AsAttributes(rc_fn)).val
            outputs == ReorderedOutputs(parameters,
                            UpdateParameterOrder(parameters, AsAttributes(rc_fn)).val)
        IN  /\ AggregateKeys(Lines(rc_chunk.text))
                 = [i \in 1..Len(outputs) |-> name_as_output(outputs[i])]
            /\ AggregateValues(Lines(rc_chunk.text))
                 = [i \in 1..Len(outputs) |-> outputs[i].name]

\* the attributes of a type whose value is a mapping from modes to templates
NestedAttributes == {"OUTCONV"}

\* the deep merge of two descriptions of one type: an attribute only the
\* older one has is kept, nested mappings merge key by key, anything else
\* takes the newer value
DeepMergedType(old, new) ==
    [k \in DOMAIN old \cup DOMAIN new |->
        IF k \notin DOMAIN new THEN old[k]
        ELSE IF k \in DOMAIN old /\ k \in NestedAttributes THEN DictUpdate(old[k], new[k])
        ELSE new[k]]

\* C19: after a second type source is loaded into a generator, every type
\* both sources describe is the deep merge of the two descriptions: what only
\* the first defined is still present, what both define has the second's
\* value.
C19_TypeSourcesAreDeepMerged ==
    rc_load.done =>
        \A t \in DOMAIN rc_load.prev \cap DOMAIN rc_load.src :
            rc_types[t] = DeepMergedType(rc_load.prev[t], rc_load.src[t])

-----------------------------------------------------------------------------
(* stimulus/generators/r.py: RRCodeGenerator.generate_function.  The type    *)
(* files give HEADER, CALL and the templates as strings, DEFAULT, INCONV and *)
(* OUTCONV as mappings; the functions carry none of GATTR-R, GATTR-PARAM-R,  *)
(* CLASS-R and PP-R, whose lines 204-229 then write nothing.                 *)

\* the name generate_function is called with
RFunction == "igraph_f"

\* line 19: NAME-R, or the function's name without its first character, dotted
RName(desc) ==
    IF "NAME-R" \in DOMAIN desc.obj THEN desc.obj["NAME-R"]
    ELSE Replace(SubSeq(RFunction, 2, Len(RFunction)), "_", ".")

\* ParamSpec.is_input of generators/base.py
OldIsInput(param) == param.mode \in {"IN", "INOUT"}

\* [x for x in seq if x != ""]
NonEmpty(seq) == SelectSeq(seq, LAMBDA x : x # "")

\* self.deps[pname] if pname in self.deps, lines 70-71
DepsOf(deps, pname) == IF HasKey(deps, pname) THEN Lookup(deps, pname).value ELSE <<>>

\* lines 72-73, 115-116 and 168-169: %I<i>% becomes the i-th dependency
RECURSIVE ReplaceNamedDeps(_, _, _)
ReplaceNamedDeps(text, deps, i) ==
    IF i > Len(deps) THEN text
    ELSE ReplaceNamedDeps(Replace(text, "%I" \o ToString(i) \o "%", deps[i]), deps, i + 1)

\* lines 57-63: the HEADER of the type, or the dotted name, with %I% replaced
HeaderOf(param, t) ==
    Replace(IF "HEADER" \in DOMAIN t THEN t["HEADER"] ELSE Replace(param.name, "_", "."),
            "%I%", Replace(param.name, "_", "."))

\* lines 64-68
DefaultOf(param, t) ==
    IF IsNone(param.default) THEN ""
    ELSE IF "DEFAULT" \in DOMAIN t /\ Get(param.default) \in DOMAIN t["DEFAULT"]
    THEN "=" \o t["DEFAULT"][Get(param.default)]
    ELSE "=" \o Get(param.default)

\* handle_input_argument, lines 53-78
HandleInputArgument(param, types, deps) ==
    ReplaceNamedDeps(HeaderOf(param, types[param.type]) \o DefaultOf(param, types[param.type]),
                     DepsOf(deps, param.name), 1)

\* lines 80-85
RHead(params, types, deps) ==
    NonEmpty([i \in 1..Len(SelectSeq(params, OldIsInput)) |->
                HandleInputArgument(SelectSeq(params, OldIsInput)[i], types, deps)])

\* line 108 concatenates the INCONV mapping itself when it has no entry for
\* the mode of an input parameter, a TypeError
InconvRaises(params, types) ==
    \E i \in 1..Len(params) :
        /\ OldIsInput(params[i])
        /\ "INCONV" \in DOMAIN types[params[i].type]
        /\ params[i].mode \notin DOMAIN types[params[i].type]["INCONV"]

\* handle_argument_check, lines 100-121
HandleArgumentCheck(param, types, deps) ==
    ReplaceNamedDeps(
        Replace(IF OldIsInput(param) /\ "INCONV" \in DOMAIN types[param.type]
                THEN "  " \o types[param.type]["INCONV"][param.mode] ELSE "",
                "%I%", Replace(param.name, "_", ".")),
        DepsOf(deps, param.name), 1)

\* lines 123-124
RInconv(params, types, deps) ==
    NonEmpty([i \in 1..Len(params) |-> HandleArgumentCheck(params[i], types, deps)])

\* line 146: type.get("CALL", name) with the name dotted
CallOf(param, t) ==
    IF "CALL" \in DOMAIN t THEN t["CALL"] ELSE Replace(param.name, "_", ".")

\* lines 141-148: the arguments of .Call, for the input parameters whose CALL
\* is not empty
RParts(params, types) ==
    [i \in 1..Len(SelectSeq(params, LAMBDA q : OldIsInput(q) /\ CallOf(q, types[q.type]) # "")) |->
        Replace(CallOf(SelectSeq(params, LAMBDA q : OldIsInput(q) /\ CallOf(q, types[q.type]) # "")[i],
                       types[SelectSeq(params, LAMBDA q : OldIsInput(q)
                                                /\ CallOf(q, types[q.type]) # "")[i].type]),
                "%I%",
                Replace(SelectSeq(params, LAMBDA q : OldIsInput(q)
                                        /\ CallOf(q, types[q.type]) # "")[i].name, "_", "."))]

\* re.sub("%I[0-9]+%", "", text), line 174, for placeholders of one digit
RECURSIVE RemoveNumbered(_, _)
RemoveNumbered(text, i) ==
    IF i > 9 THEN text
    ELSE RemoveNumbered(Replace(text, "%I" \o ToString(i) \o "%", ""), i + 1)

\* handle_output_argument, lines 154-174; target is iprefix + realname
HandleOutputArgument(param, types, deps, target) ==
    RemoveNumbered(
        ReplaceNamedDeps(Replace(OutconvTemplate(types[param.type], param.mode), "%I%", target),
                         DepsOf(deps, param.name), 1),
        1)

\* lines 176-183
ROutconv(params, types, deps) ==
    NonEmpty([i \in 1..Len(params) |->
                HandleOutputArgument(params[i], types, deps,
                    IF Len(RetPars(params)) <= 1 THEN "res" ELSE "res$" \o params[i].name)])

\* lines 187-189 raise KeyError for a function without output parameters
\* whose return type is not in the catalog, or has an OUTCONV without OUT
ReturnRaises(params, types, return_type) ==
    /\ Len(RetPars(params)) = 0
    /\ \/ return_type \notin DOMAIN types
       \/ /\ "OUTCONV" \in DOMAIN types[return_type]
          /\ "OUT" \notin DOMAIN types[return_type]["OUTCONV"]

\* lines 185-200: the text written at line 201
RRet(params, types, deps, return_type) ==
    Join(ROutconv(params, types, deps), "\n") \o "\n"
        \o (IF Len(RetPars(params)) = 0
            THEN Replace(IF "OUTCONV" \in DOMAIN types[return_type]
                         THEN "  " \o types[return_type]["OUTCONV"]["OUT"] ELSE "",
                         "%I%", "res") \o "\n"
            ELSE "")

\* the writes of lines 33-98
WritesOfHeader(desc, params, types, deps) ==
    (IF "INTERNAL" \notin DOMAIN desc.obj \/ desc.obj["INTERNAL"] = "False"
     THEN <<"#' @export\n">> ELSE <<>>)
        \o <<RName(desc), " <- function(", Join(RHead(params, types, deps), ", "), ") {\n",
             "  # Argument checks\n">>

\* the writes of lines 125-151
WritesOfCall(params, types, deps) ==
    <<Join(RInconv(params, types, deps), "\n") \o "\n\n",
      "  on.exit( .Call(C_R_igraph_finalizer) )\n",
      "  # Function call\n",
      "  res <- .Call(C_R_" \o RFunction \o ", ",
      Join(RParts(params, types), ", "),
      ")\n">>

RRRaised(kind, written) == [st |-> "raised", kind |-> kind, written |-> written]

\* lines 29-231, once every parameter type has been found in the catalog
RRWrite(desc, params, types, deps) ==
    IF InconvRaises(params, types)
    THEN RRRaised("TypeError", WritesOfHeader(desc, params, types, deps))
    ELSE IF ReturnRaises(params, types, desc.return_type)
    THEN RRRaised("KeyError", WritesOfHeader(desc, params, types, deps)
                                \o WritesOfCall(params, types, deps))
    ELSE [st |-> "ok", kind |-> "",
          written |-> WritesOfHeader(desc, params, types, deps)
                        \o WritesOfCall(params, types, deps)
                        \o <<RRet(params, types, deps, desc.return_type), "  res\n}\n\n">>]

\* RRCodeGenerator.generate_function: what it wrote and how it ended; lines
\* 24-27 raise StimulusError for a parameter type that is not in the catalog
WritesOfParsed(desc, params, deps, types) ==
    IF ~params.ok \/ ~deps.ok
    THEN RRRaised("IndexError", <<>>)
    ELSE IF \E i \in 1..Len(params.val) : params.val[i].type \notin DOMAIN types
    THEN RRRaised("StimulusError", <<>>)
    ELSE RRWrite(desc, params.val, types, deps.val)

\* lines 17-21 and 23-231: the parameters and dependencies are parsed once
GenerateFunctionWrites(desc, types) ==
    WritesOfParsed(desc, OldParseParameterSpecification(desc),
                   OldParseDependencySpecification(desc), types)

\* generate_function of an RRCodeGenerator for the function
GenerateFunctionRR ==
    /\ rr_out.st = "none"
    /\ rr_out' = GenerateFunctionWrites(rc_fn, rc_types)
    /\ UNCHANGED <<rc_fn, rc_types, rc_chunk, rc_load>>
    /\ UNCHANGED NotRc

\* an RRCodeGenerator and an RCCodeGenerator with the same type catalog, each
\* generating the same function
InitRR == RcInit /\ FdParked /\ GParked /\ LxParked /\ PsParked /\ PcParked /\ CliParked /\ JobParked /\ PyParked
NextRR ==
    \/ GenerateFunctionRR
    \/ GenerateFunction
SpecRR == InitRR /\ [][NextRR]_vars

-----------------------------------------------------------------------------
(* Claims about the per-function rendering of the R generators, under SpecRR *)

\* the words of one PARAMS item
ItemWords(item) == SelectSeq(Split(Strip(item), " "), LAMBDA w : w # "")

\* the type names the PARAMS of a function declare
DeclaredTypes(desc) ==
    {IF ItemWords(item)[1] \in {"IN", "OUT", "INOUT"}
     THEN ItemWords(item)[2] ELSE ItemWords(item)[1] :
        item \in Range(IF GetOrEmpty(desc.obj, "PARAMS") = "" THEN <<>>
                       ELSE Split(desc.obj["PARAMS"], ","))}

\* C20: in both R generators a function with a parameter type or a return
\* type that is not in the type catalog ends in a failure, and no text of the
\* function has been written to the output when it does.
C20_TypesCheckedBeforeWriting ==
    (DeclaredTypes(rc_fn) \cup {rc_fn.return_type}) \ DOMAIN rc_types # {} =>
        /\ rr_out.st # "none" => (rr_out.st = "raised" /\ rr_out.written = <<>>)
        /\ rc_chunk.st # "none" => rc_chunk.st \in {"skipped", "raised"}

-----------------------------------------------------------------------------
(* The scanner and the parser on streams of up to MaxLines lines *)

InitLex == LxInit /\ FdParked /\ GParked /\ RcParked /\ PsParked /\ PcParked /\ CliParked /\ JobParked /\ PyParked
NextLex ==
    \/ \E line \in LineSet : \E next \in Following(line) : ScanLine(line, next)
    \/ EndOfStream
SpecLex == InitLex /\ [][NextLex]_vars

-----------------------------------------------------------------------------
(* Claims about the scanner and the parser, under SpecLex *)

\* the levels of a stack grow strictly, from the base level 0
StrictlyIncreasing(stack) ==
    /\ \A i \in 1..(Len(stack) - 1) : stack[i] < stack[i + 1]
    /\ Len(stack) > 0 => stack[1] = 0

\* the stack is the part of the earlier stack that is no deeper than the level
PoppedTo(stack, before, level) ==
    /\ Len(stack) < Len(before)
    /\ stack = SubSeq(before, 1, Len(stack))
    /\ \A i \in (Len(stack) + 1)..Len(before) : before[i] > level

\* C15: a line with content that is indented deeper than the top of the
\* indentation stack yields exactly one INDENT and pushes its level; a
\* shallower line yields exactly one DEDENT per level popped and lands on a
\* level that is still on the stack, otherwise tokenize raises the
\* bad-indentation ParseError with the number of that line; while the stream
\* is being read the indentation stack is strictly increasing from level 0.
C15_IndentationStackDiscipline ==
    /\ StrictlyIncreasing(lx_indent_stack)
    /\ lx_indent_stack = <<>> => lx_state = "done"
    /\ lx_step.kind = "line" =>
        /\ lx_step.level > lx_step.before[Len(lx_step.before)] =>
            /\ lx_step.moves = <<TokenINDENT>>
            /\ lx_indent_stack = Append(lx_step.before, lx_step.level)
            /\ lx_err.msg # "Bad indentation"
        /\ lx_step.level = lx_step.before[Len(lx_step.before)] =>
            /\ lx_step.moves = <<>>
            /\ lx_indent_stack = lx_step.before
            /\ lx_err.msg # "Bad indentation"
        /\ lx_step.level < lx_step.before[Len(lx_step.before)] =>
            /\ PoppedTo(lx_indent_stack, lx_step.before, lx_step.level)
            /\ lx_step.moves =
                  [i \in 1..(Len(lx_step.before) - Len(lx_indent_stack)) |-> TokenDEDENT]
            /\ IF lx_step.level \in Range(lx_step.before)
               THEN /\ lx_indent_stack[Len(lx_indent_stack)] = lx_step.level
                    /\ lx_err.msg # "Bad indentation"
               ELSE /\ lx_state = "error"
                    /\ lx_err = ParseError("Bad indentation", Len(lx_doc))

\* a line indented by two columns follows a block indented by four: the
\* block is closed with one DEDENT and the line lands on no open level
C15_Witness ==
    /\ lx_step.kind = "line"
    /\ lx_step.before = <<0, 4>>
    /\ lx_step.level = 2
    /\ lx_step.moves = <<TokenDEDENT>>
    /\ lx_state = "error"

\* the lines of a document that are neither blank nor comments
RECURSIVE ContentLines(_)
ContentLines(doc) ==
    IF Len(doc) = 0 THEN <<>>
    ELSE (IF IsBlankLine(Head(doc)) \/ IsCommentLine(Head(doc)) THEN <<>>
          ELSE <<Head(doc)>>) \o ContentLines(Tail(doc))

\* a document that is the line "a, b: x" followed by other keys of the same level
InlineValueDocument(lines) ==
    /\ Len(lines) >= 1
    /\ lines[1] = "a, b: x"
    /\ \A i \in 2..Len(lines) : lines[i] = "f:"

\* a document that is the line "a, b:" followed by the lines of its block
NestedBlockDocument(lines) ==
    /\ Len(lines) >= 2
    /\ lines[1] = "a, b:"
    /\ \A i \in 2..Len(lines) : IndentLevel(lines[i]) > 0

\* both keys are in the mapping, with the same value
SharedValue(od, j, k) ==
    /\ HasKey(od, j)
    /\ HasKey(od, k)
    /\ SameValue(Lookup(od, j).value, Lookup(od, k).value)

\* C16: every key of a comma-separated key list maps to the same value in the
\* tree parse returns: the inline text when the line has a value part, and
\* otherwise the nested block that follows the line, never an empty mapping.
C16_ListedKeysShareTheValue ==
    px_status = "returned" =>
        /\ InlineValueDocument(ContentLines(lx_doc)) =>
            /\ SharedValue(px_value, "a", "b")
            /\ Lookup(px_value, "a").value = S("x")
        /\ NestedBlockDocument(ContentLines(lx_doc)) =>
            /\ SharedValue(px_value, "a", "b")
            /\ Lookup(px_value, "a").value # D(<<>>)

\* the number of tokens of a type among the first n tokens
CountOf(tokens, n, type) == Cardinality({i \in 1..n : tokens[i].type = type})

\* the INDENTs that are still open after the first n tokens
OpenAfter(tokens, n) == CountOf(tokens, n, "indent") - CountOf(tokens, n, "dedent")

C26_ParseNeverAsserts ==
    lx_state = "done" => px_status # "AssertionError"

-----------------------------------------------------------------------------
(* ParamSpec.from_string on the items of a PARAMS list *)

\* the words an item is written with; every word but the type and the name
\* may be missing
FlagWords == {"", "PRIMARY ", "OPTIONAL ", "PRIMARY OPTIONAL "}
ModeKeywords == {"", "IN ", "OUT ", "INOUT "}
TypeWords == {"INT", "INDEX", "OUTPUT", "PRIMARYKEY", "OPTIONAL_T"}
NameWords == {"a", "in_x"}
DefaultTexts == {"", "=0", "=x=y"}

ParamItems ==
    [flags : FlagWords, mode : ModeKeywords, type : TypeWords, name : NameWords,
     default : DefaultTexts]

\* the item as it is written in PARAMS
ItemText(w) == w.flags \o w.mode \o w.type \o " " \o w.name \o w.default

PsInit ==
    /\ ps_in \in ParamItems
    /\ ps_spec = [st |-> "none", val |-> <<>>]

\* what from_string returned, or the IndexError it raised
FromStringEnded(spec) ==
    [st |-> IF IsNone(spec) THEN "IndexError" ELSE "ok", val |-> spec]

\* ParamSpec.from_string(item)
CallFromString ==
    /\ ps_spec.st = "none"
    /\ ps_spec' = FromStringEnded(FromString(ItemText(ps_in)))
    /\ UNCHANGED ps_in
    /\ UNCHANGED NotPs

InitPS == PsInit /\ FdParked /\ GParked /\ RcParked /\ LxParked /\ PcParked /\ CliParked /\ JobParked /\ PyParked
NextPS == CallFromString
SpecPS == InitPS /\ [][NextPS]_vars

\* the text after the first `=` of an item
AfterEquals(text) ==
    IF Contains(text, "=") THEN Some(SubSeq(text, Find(text, "=") + 1, Len(text)))
    ELSE None

\* C24: when the leading token of an item is none of PRIMARY, OPTIONAL, IN,
\* OUT, INOUT, from_string takes the whole token as the type, sets no flag,
\* takes IN as the mode and the next token as the name, and the text after
\* the first `=` as the default.
C24_LeadingTokenIsTheType ==
    (ps_spec.st # "none" /\ ps_in.flags = "" /\ ps_in.mode = "") =>
        /\ ps_spec.st = "ok"
        /\ Get(ps_spec.val).type = ps_in.type
        /\ ~Get(ps_spec.val).is_primary
        /\ ~Get(ps_spec.val).is_optional
        /\ Get(ps_spec.val).mode = "in"
        /\ Get(ps_spec.val).name = ps_in.name
        /\ Get(ps_spec.val).default = AfterEquals(ps_in.default)

-----------------------------------------------------------------------------
(* The memos of get_parameters_for_function and                            *)
(* get_dependencies_for_function, stimulus/generators/base.py              *)

\* the objects load_function_descriptors_from_object is given for the function
CacheParams == {"", "INT a", "OUT INT b, DOUBLE c=0", "a"}
CacheDeps == {"", "c ON a", "b ON a c"}
CacheSource(params, deps) ==
    DictUpdate(IF params = "" THEN EmptyMap ELSE [PARAMS |-> params],
               IF deps = "" THEN EmptyMap ELSE [DEPS |-> deps])

NoQuery == [st |-> "none", kind |-> "", val |-> <<>>]
QueryReturned(kind, val) == [st |-> "returned", kind |-> kind, val |-> val]
QueryRaised(kind) == [st |-> "raised", kind |-> kind, val |-> <<>>]

\* load_function_descriptors_from_object({name: spec}), lines 221-226: the
\* descriptor is made when the name is new, then updated; no memo is touched
CacheLoad(spec) ==
    /\ pc_loads < MaxLoads
    /\ pc_fn' = Some(DescriptorUpdateFrom(IF IsNone(pc_fn) THEN NewDescriptor ELSE Get(pc_fn),
                                          spec))
    /\ pc_loads' = pc_loads + 1
    /\ pc_ret' = NoQuery
    /\ UNCHANGED <<pc_param_cache, pc_deps_cache>>
    /\ UNCHANGED NotPc

\* result = cache.get(name); if result is None: cache[name] = result = parsed
\* (lines 266-269 and 282-285); get_function_descriptor raises KeyError for a
\* name that was never loaded, and a parse that raises stores nothing
Memoized(cache, parsed) ==
    IF ~IsNone(cache) THEN cache
    ELSE IF IsNone(pc_fn) \/ ~parsed.ok THEN None
    ELSE Some(parsed.val)

QueryResult(kind, memo) ==
    IF IsNone(memo) THEN QueryRaised(kind) ELSE QueryReturned(kind, Get(memo))

CurrentParams == IF IsNone(pc_fn) THEN Failed(Error("KeyError", "", ""))
                 ELSE OldParseParameterSpecification(Get(pc_fn))
CurrentDeps == IF IsNone(pc_fn) THEN Failed(Error("KeyError", "", ""))
               ELSE OldParseDependencySpecification(Get(pc_fn))

\* get_parameters_for_function(name)
GetParametersForFunction ==
    /\ pc_param_cache' = Memoized(pc_param_cache, CurrentParams)
    /\ pc_ret' = QueryResult("params", pc_param_cache')
    /\ UNCHANGED <<pc_fn, pc_deps_cache, pc_loads>>
    /\ UNCHANGED NotPc

\* get_dependencies_for_function(name)
GetDependenciesForFunction ==
    /\ pc_deps_cache' = Memoized(pc_deps_cache, CurrentDeps)
    /\ pc_ret' = QueryResult("deps", pc_deps_cache')
    /\ UNCHANGED <<pc_fn, pc_param_cache, pc_loads>>
    /\ UNCHANGED NotPc

\* one generator, one function name, loads and queries in any order
InitCache == PcParked /\ FdParked /\ GParked /\ RcParked /\ LxParked /\ PsParked /\ CliParked /\ JobParked /\ PyParked
NextCache ==
    \/ \E params \in CacheParams : \E deps \in CacheDeps :
            CacheLoad(CacheSource(params, deps))
    \/ GetParametersForFunction
    \/ GetDependenciesForFunction
SpecCache == InitCache /\ [][NextCache]_vars

\* C28: a query of the parameters or of the dependencies of a function
\* returns what the function's current PARAMS or DEPS parse to, also when
\* the attributes were changed by a load after an earlier query.
C28_QueriesReflectCurrentAttributes ==
    /\ (pc_ret.st = "returned" /\ pc_ret.kind = "params")
            => (CurrentParams.ok /\ pc_ret.val = CurrentParams.val)
    /\ (pc_ret.st = "returned" /\ pc_ret.kind = "deps")
            => (CurrentDeps.ok /\ pc_ret.val = CurrentDeps.val)

-----------------------------------------------------------------------------
(* main() of stimulus/__main__.py *)

MaxFlags == 2        \* occurrences of one option on the command line

\* the classes of __main__.py that globals()[f"{lang}CodeGenerator"] finds,
\* with the methods each defines among the two CodeGeneratorBase leaves
\* abstract; "Python" names no class of the module
LanguageClasses ==
    [RR |-> {"generate_function"},
     RNamespace |-> {"generate"}]
LanguageNames == {"RR", "RNamespace", "Python"}
OutputNames == {"out", "-"}

\* a file named on the command line, and what os.access(f, os.R_OK) says
Readable == TRUE
Unreadable == FALSE

SeqsUpTo(X, n) == UNION { [1..k -> X] : k \in 0..n }

\* has_code_generator_class_for_language
HasCodeGeneratorClassForLanguage(lang) == lang \in DOMAIN LanguageClasses

\* calling the class: ABCMeta refuses a class with an abstract method left
IsAbstract(lang) == ~({"generate", "generate_function"} \subseteq LanguageClasses[lang])

Exit(status) == [how |-> "exit", status |-> status, err |-> ""]
Uncaught(err) == [how |-> "exception", status |-> 1, err |-> err]
ReturnedFromMain == [how |-> "returned", status |-> 0, err |-> ""]

\* lines 78-81: the test of the -f loop reads f, the variable of the -t loop,
\* which is unbound when no -t was given and is the last type file otherwise
FunctionFilesCheck(args) ==
    IF Len(args.function_files) = 0 THEN "ok"
    ELSE IF Len(args.type_files) = 0 THEN "unbound"
    ELSE IF args.type_files[Len(args.type_files)] = Readable THEN "ok"
    ELSE "unreadable"

\* lines 91-105 for the first pair, as far as the call of generate: the
\* generator is made, the function and type files are loaded with methods
\* CodeGeneratorBase does not have, and an output that is not "-" is opened
\* for writing
Generating == [how |-> "generating", status |-> 0, err |-> ""]
FirstJob(args) ==
    IF IsAbstract(args.languages[1])
    THEN [exit |-> Uncaught("TypeError"), made |-> 0, opened |-> 0]
    ELSE IF Len(args.function_files) + Len(args.type_files) > 0
    THEN [exit |-> Uncaught("AttributeError"), made |-> 1, opened |-> 0]
    ELSE [exit |-> Generating, made |-> 1,
          opened |-> IF args.outputs[1] = "-" THEN 0 ELSE 1]

\* lines 68-90: the parameter checks, in the order main makes them
MainOutcome(args, functionFiles) ==
    IF Len(args.languages) # Len(args.outputs)
    THEN [exit |-> Exit(4), made |-> 0, opened |-> 0]
    ELSE IF \E i \in 1..Len(args.languages) :
                ~HasCodeGeneratorClassForLanguage(args.languages[i])
    THEN [exit |-> Exit(6), made |-> 0, opened |-> 0]
    ELSE IF \E i \in 1..Len(args.type_files) : args.type_files[i] = Unreadable
    THEN [exit |-> Exit(5), made |-> 0, opened |-> 0]
    ELSE IF functionFiles = "unbound"
    THEN [exit |-> Uncaught("UnboundLocalError"), made |-> 0, opened |-> 0]
    ELSE IF functionFiles = "unreadable"
    THEN [exit |-> Exit(5), made |-> 0, opened |-> 0]
    ELSE IF \E i \in 1..Len(args.inputs) : args.inputs[i] = Unreadable
    THEN [exit |-> Exit(5), made |-> 0, opened |-> 0]
    ELSE IF Len(args.languages) = 0
    THEN [exit |-> ReturnedFromMain, made |-> 0, opened |-> 0]
    ELSE FirstJob(args)

NotRun == [how |-> "none", status |-> 0, err |-> ""]

CliInit ==
    /\ cli_args \in [languages : SeqsUpTo(LanguageNames, MaxFlags),
                     outputs : SeqsUpTo(OutputNames, MaxFlags),
                     type_files : SeqsUpTo(BOOLEAN, MaxFlags),
                     function_files : SeqsUpTo(BOOLEAN, MaxFlags),
                     inputs : SeqsUpTo(BOOLEAN, 1)]
    /\ cli_exit = NotRun
    /\ cli_made = 0
    /\ cli_opened = 0

Ran(outcome) ==
    /\ cli_exit' = outcome.exit
    /\ cli_made' = outcome.made
    /\ cli_opened' = outcome.opened

\* main()
Main ==
    /\ cli_exit.how = "none"
    /\ Ran(MainOutcome(cli_args, FunctionFilesCheck(cli_args)))
    /\ UNCHANGED cli_args
    /\ UNCHANGED NotCli

InitCli == CliInit /\ FdParked /\ GParked /\ RcParked /\ LxParked /\ PsParked /\ PcParked /\ JobParked /\ PyParked
NextCli == Main
SpecCli == InitCli /\ [][NextCli]_vars

\* the conditions main is to refuse the command line for
BadCommandLine(args) ==
    \/ Len(args.languages) # Len(args.outputs)
    \/ \E i \in 1..Len(args.languages) : args.languages[i] \notin DOMAIN LanguageClasses
    \/ \E i \in 1..Len(args.type_files) : args.type_files[i] = Unreadable
    \/ \E i \in 1..Len(args.function_files) : args.function_files[i] = Unreadable
    \/ \E i \in 1..Len(args.inputs) : args.inputs[i] = Unreadable

\* C22: a command line with unequal numbers of -l and -o, an unknown
\* language, or an unreadable function, type or input file makes main exit
\* with a non-zero status, no generator constructed and no output opened.
C22_BadCommandLineIsRefused ==
    (cli_exit.how # "none" /\ BadCommandLine(cli_args)) =>
        /\ cli_exit.status # 0
        /\ cli_made = 0
        /\ cli_opened = 0

-----------------------------------------------------------------------------
(* generate_functions_block of the R and shell generators over a catalog   *)
(* of functions: stimulus/generators/base.py, r.py and shell.py            *)

MaxFunctions == 3    \* functions in the catalog

JobNames == <<"igraph_f", "igraph_g", "igraph_h">>

\* what a function of the catalog is loaded from: GRAPH is in no catalog of
\* TypeCatalogs
JobSpecs ==
    { [PARAMS |-> "INT a, OUT DOUBLE b", RETURN |-> "INT"],
      [PARAMS |-> "GRAPH graph, OUT DOUBLE b", RETURN |-> "INT"],
      [PARAMS |-> "INT a", RETURN |-> "INT", IGNORE |-> "RR, RC, Shell"],
      [PARAMS |-> "GRAPH graph", IGNORE |-> "RR, RC, Shell"],
      [PARAMS |-> "INOUT DOUBLE c"] }

JobEntries(specs) == [i \in 1..Len(specs) |-> [name |-> JobNames[i], spec |-> specs[i]]]

\* one call of generate_function(name, out): how it ended and whether it
\* wrote anything to out
CallOutcome(name, st, kind, wrote) ==
    [name |-> name, st |-> st, kind |-> kind, wrote |-> wrote]

\* RRCodeGenerator.generate_function
CallRR(name, result) ==
    CallOutcome(name, result.st, result.kind, Len(result.written) > 0)

\* RCCodeGenerator.generate_function: lines 239-244 log the unknown type and
\* return; the text is written once every chunk has been built
CallRC(name, chunk) ==
    CallOutcome(name, chunk.st, IF chunk.st = "raised" THEN "KeyError" ELSE "",
                chunk.st = "ok")

\* a type whose parameters are command line arguments, shell.py line 128
HasConv(t) == "INCONV" \in DOMAIN t \/ "OUTCONV" \in DOMAIN t

\* the chunks of shell.py lines 149-156 look up self.types[spec.return_type]
\* (chunk_decl, chunk_outconv), params[p + "-out"] for an INOUT parameter
\* that is an argument (chunk_inconv) and args[p] for a parameter with a
\* default (chunk_default); each is a KeyError when the key is not there
ShellChunksRaise(params, types, return_type) ==
    \/ return_type \notin DOMAIN types
    \/ \E i \in 1..Len(params) :
            params[i].mode = "INOUT" /\ HasConv(types[params[i].type])
    \/ \E i \in 1..Len(params) :
            ~IsNone(params[i].default) /\ ~HasConv(types[params[i].type])

\* ShellCodeGenerator.generate_function: lines 122-125 warn about a
\* parameter type that is not in the catalog and return
ShellOfParsed(name, params, types, return_type) ==
    IF ~params.ok THEN CallOutcome(name, "raised", "IndexError", FALSE)
    ELSE IF \E i \in 1..Len(params.val) : params.val[i].type \notin DOMAIN types
    THEN CallOutcome(name, "skipped", "", FALSE)
    ELSE IF ShellChunksRaise(params.val, types, return_type)
    THEN CallOutcome(name, "raised", "KeyError", FALSE)
    ELSE CallOutcome(name, "ok", "", TRUE)

CallShell(name, desc, types) ==
    ShellOfParsed(name, OldParseParameterSpecification(desc), types, desc.return_type)

GenerateFunctionOf(cls, name, desc, types) ==
    IF cls = "RRCodeGenerator" THEN CallRR(name, GenerateFunctionWrites(desc, types))
    ELSE IF cls = "RCCodeGenerator" THEN CallRC(name, GenerateFunctionOutconv(desc, types))
    ELSE CallShell(name, desc, types)

\* lines 252-253: for name in self.iter_functions():
\*                    self.generate_function(name, output)
\* an exception of a call ends the loop
RECURSIVE BlockCalls(_, _, _, _, _)
BlockCalls(names, funcs, cls, types, done) ==
    IF Len(names) = 0 \/ (Len(done) > 0 /\ done[Len(done)].st = "raised") THEN done
    ELSE BlockCalls(Tail(names), funcs, cls, types,
                    Append(done, GenerateFunctionOf(cls, Head(names),
                                                    Lookup(funcs, Head(names)).desc, types)))

\* what the block wrote: a literal text, or the prototype, the dispatch
\* branch or the definition of a function
Item(kind, name) == [kind |-> kind, name |-> name]
ItemsOfKind(kind, names) == [i \in 1..Len(names) |-> Item(kind, names[i])]

\* the definitions the calls wrote, in the order of the calls
RECURSIVE Definitions(_)
Definitions(calls) ==
    IF Len(calls) = 0 THEN <<>>
    ELSE (IF Head(calls).wrote THEN <<Item("definition", Head(calls).name)>> ELSE <<>>)
            \o Definitions(Tail(calls))

\* CodeGeneratorBase.generate_functions_block writes what the calls write
BlockResult(calls) ==
    IF Len(calls) > 0 /\ calls[Len(calls)].st = "raised"
    THEN [st |-> "raised", kind |-> calls[Len(calls)].kind, calls |-> calls,
          items |-> Definitions(calls)]
    ELSE [st |-> "returned", kind |-> "", calls |-> calls, items |-> Definitions(calls)]

\* ShellCodeGenerator.generate_functions_block, shell.py lines 85-108: the
\* prototypes, main() with one branch per function, then the definitions
ShellBlockResult(names, calls) ==
    [BlockResult(calls) EXCEPT !.items =
        <<Item("text", "prototypes")>> \o ItemsOfKind("prototype", names)
            \o <<Item("text", "main")>> \o ItemsOfKind("branch", names)
            \o <<Item("text", "functions")>> \o Definitions(calls)]

NoIgnoreCache == [n \in {} |-> FALSE]
NoBlock == [st |-> "none", kind |-> "", calls |-> <<>>, items |-> <<>>]

JobInit ==
    /\ job_class \in {"RRCodeGenerator", "RCCodeGenerator", "ShellCodeGenerator"}
    /\ \E n \in 1..MaxFunctions : \E specs \in [1..n -> JobSpecs] :
            job_funcs = LoadAll(<<>>, JobEntries(specs))
    /\ job_types \in TypeCatalogs
    /\ job_out = NoBlock

BlockOf(cls, names, calls) ==
    IF cls = "ShellCodeGenerator" THEN ShellBlockResult(names, calls)
    ELSE BlockResult(calls)

BlockOver(cls, names, funcs, types) ==
    BlockOf(cls, names, BlockCalls(names, funcs, cls, types, <<>>))

\* generate_functions_block(output) of a generator that was just loaded
GenerateFunctionsBlock ==
    /\ job_out.st = "none"
    /\ job_out' = BlockOver(job_class, IterFunctions(NoIgnoreCache, job_funcs, job_class),
                            job_funcs, job_types)
    /\ UNCHANGED <<job_class, job_funcs, job_types>>
    /\ UNCHANGED NotJob

InitJob ==
    /\ JobInit /\ FdParked /\ GParked /\ RcParked /\ LxParked /\ PsParked
    /\ PcParked /\ CliParked /\ PyParked
NextJob == GenerateFunctionsBlock
SpecJob == InitJob /\ [][NextJob]_vars

\* the functions of the catalog the generator does not ignore, in catalog order
NotIgnored(funcs, cls) ==
    SelectNames(Keys(funcs),
                {n \in Range(Keys(funcs)) :
                    GeneratorName(cls) \notin Lookup(funcs, n).desc.ignored_by})

\* a function with a parameter whose type is not in the type catalog
HasUnknownType(desc, types) ==
    /\ OldParseParameterSpecification(desc).ok
    /\ \E i \in 1..Len(OldParseParameterSpecification(desc).val) :
            OldParseParameterSpecification(desc).val[i].type \notin DOMAIN types

\* C21: a function with a parameter type that is not in the type catalog
\* does not stop the job: generate_function is called for every function
\* that is not ignored, in catalog order, and the call for such a function
\* returns after writing a diagnostic marker to the output.
C21_UnknownTypeDoesNotStopTheJob ==
    (job_out.st # "none"
        /\ \A i \in 1..Len(job_funcs) :
                ~HasUnknownType(job_funcs[i].desc, job_types)
                    => GenerateFunctionOf(job_class, job_funcs[i].name, job_funcs[i].desc,
                                          job_types).st # "raised")
    => /\ [i \in 1..Len(job_out.calls) |-> job_out.calls[i].name]
            = NotIgnored(job_funcs, job_class)
       /\ \A i \in 1..Len(job_out.calls) :
            HasUnknownType(Lookup(job_funcs, job_out.calls[i].name).desc, job_types)
                => (job_out.calls[i].st # "raised" /\ job_out.calls[i].wrote)

\* the names of the items of one kind, in the order they were written
RECURSIVE NamesOfKind(_, _)
NamesOfKind(items, kind) ==
    IF Len(items) = 0 THEN <<>>
    ELSE (IF Head(items).kind = kind THEN <<Head(items).name>> ELSE <<>>)
            \o NamesOfKind(Tail(items), kind)

\* C29: a block the shell generator has finished has, for the same functions
\* in the same order, a prototype, a dispatch branch in main() and, later in
\* the output, a definition, also when a parameter type of a function is not
\* in the type catalog.
C29_PrototypeBranchAndDefinition ==
    (job_out.st = "returned" /\ job_class = "ShellCodeGenerator") =>
        /\ NamesOfKind(job_out.items, "prototype") = NamesOfKind(job_out.items, "branch")
        /\ NamesOfKind(job_out.items, "definition") = NamesOfKind(job_out.items, "prototype")

-----------------------------------------------------------------------------
(* PythonCTypesTypedWrapperCodeGenerator of stimulus/generators/python.py  *)
(* on the function descriptor of stimulus/model/functions.py               *)

\* the type catalog of the generator: PY_TYPE and the INCONV templates
PyTypes ==
    [INT |-> [PY_TYPE |-> "int"],
     REAL |-> [PY_TYPE |-> "float", INCONV |-> [OUT |-> "%C% = c_double()"]],
     VECTOR |-> [INCONV |-> [OUT |-> "%C% = _Vector.create(0)"]],
     DEPRECATED |-> [PY_TYPE |-> "None"],
     ERROR |-> [CTYPE |-> "igraph_error_t"]]

\* ParamSpec.is_deprecated, parameters.py lines 130-133
is_deprecated(param) == param.type = "DEPRECATED"

\* lines 198-202: Python reserved keywords get an underscore
PyName(name) == IF name \in {"from", "in", "lambda"} THEN name \o "_" ELSE name

\* lines 218-221: appears_in_argument_list
AppearsInArgumentList(param) == ~is_deprecated(param) /\ is_input(param)

\* TypeDescriptor.translate_default_value for a type without DEFAULT
PyArg(param) == [name |-> PyName(param.name), type |-> PyTypes[param.type].PY_TYPE,
                 default |-> param.default]

\* ArgInfo.get_python_declaration
PythonDeclaration(arg) ==
    IF IsNone(arg.default) THEN arg.name \o ": " \o arg.type
    ELSE arg.name \o ": " \o arg.type \o " = " \o Get(arg.default)

\* the parameters the entries of names name, in that order
ParamsOf(parameters, names) == [i \in 1..Len(names) |-> Lookup(parameters, names[i])]

\* the members of a sequence of parameters that appear in the argument list
RECURSIVE Appearing(_)
Appearing(params) ==
    IF Len(params) = 0 THEN <<>>
    ELSE (IF AppearsInArgumentList(Head(params)) THEN <<Head(params)>> ELSE <<>>)
            \o Appearing(Tail(params))

\* lines 299-312: an argument without a default after one with a default
DefaultPrecedesNonDefault(params) ==
    \E i, j \in 1..Len(params) :
        i < j /\ ~IsNone(params[i].default) /\ IsNone(params[j].default)

\* ArgInfo.get_input_conversion raises for a parameter that is not an input
\* when the type has no INCONV template for its mode, lines 235-245
CannotConstruct(param) ==
    /\ ~is_input(param)
    /\ \/ "INCONV" \notin DOMAIN PyTypes[param.type]
       \/ "OUT" \notin DOMAIN PyTypes[param.type].INCONV

\* _get_return_type_and_args, lines 399-431: the types of the return value
\* and of the parameters that are neither deprecated nor inputs
RECURSIVE ReturnArgTypes(_)
ReturnArgTypes(params) ==
    IF Len(params) = 0 THEN <<>>
    ELSE (IF ~is_deprecated(Head(params)) /\ ~is_input(Head(params))
          THEN <<Head(params).type>> ELSE <<>>)
            \o ReturnArgTypes(Tail(params))

ReturnTypes(params, return_type) ==
    (IF return_type \notin {"ERROR", "VOID"} THEN <<return_type>> ELSE <<>>)
        \o ReturnArgTypes(params)

PyReturnType(types) ==
    IF Len(types) = 0 THEN "None"
    ELSE IF Len(types) = 1 THEN PyTypes[types[1]].PY_TYPE
    ELSE "Tuple[" \o Join([i \in 1..Len(types) |-> PyTypes[types[i]].PY_TYPE], ", ") \o "]"

\* _get_python_name, line 376
PythonName(obj) ==
    IF "NAME" \in DOMAIN obj /\ Truthy(obj["NAME"]) THEN obj["NAME"].v ELSE FuncName

NoPy == [st |-> "none", kind |-> "", args |-> <<>>, written |-> <<>>, merges |-> 0]

\* an exception generate_function does not catch
PyRaised(kind, merges) ==
    [st |-> "raised", kind |-> kind, args |-> <<>>, written |-> <<>>, merges |-> merges]

\* lines 283-284: write(f"\n# {name}: {ex}\n"), the only write of the call
PyComment(kind, merges) ==
    [st |-> "comment", kind |-> kind, args |-> <<>>,
     written |-> <<"\n# " \o FuncName \o ": " \o kind \o "\n">>, merges |-> merges]

\* lines 279-281 and 315-323: the header, with the body that follows it, is
\* written in one piece once _generate_function has returned
PyFunction(name, args, ret, merges) ==
    [st |-> "ok", kind |-> "", args |-> args,
     written |-> <<"\n\ndef " \o name \o "("
                     \o Join([i \in 1..Len(args) |-> PythonDeclaration(args[i])], ", ")
                     \o ") -> " \o ret \o ":\n">>,
     merges |-> merges]

\* check_types_of_function: a parameter type or a return type that is not in
\* the type catalog is an error of this function
HasUnknownPyType(params, return_type) ==
    \/ \E i \in 1..Len(params) : params[i].type \notin DOMAIN PyTypes
    \/ return_type \notin DOMAIN PyTypes

\* _generate_function, lines 286-323 and the conversions of lines 325-331,
\* on the parameters in declaration order and in the order of _param_order
PyGenerate(obj, params, reordered, return_type, merges) ==
    IF HasUnknownPyType(params, return_type)
    THEN PyComment("no such type", merges)
    ELSE IF \E i \in 1..Len(params) : "PY_TYPE" \notin DOMAIN PyTypes[params[i].type]
    THEN PyComment("no Python type known for type", merges)
    ELSE IF DefaultPrecedesNonDefault(Appearing(reordered))
    THEN PyComment("at least one default argument precedes non-default argument", merges)
    ELSE IF \E i \in 1..Len(ReturnTypes(params, return_type)) :
                "PY_TYPE" \notin DOMAIN PyTypes[ReturnTypes(params, return_type)[i]]
    THEN PyComment("no Python type known for type", merges)
    ELSE IF \E i \in 1..Len(params) : CannotConstruct(params[i])
    THEN PyComment("Cannot construct an instance of abstract type", merges)
    ELSE PyFunction(PythonName(obj),
                    [i \in 1..Len(Appearing(reordered)) |-> PyArg(Appearing(reordered)[i])],
                    PyReturnType(ReturnTypes(params, return_type)), merges)

\* the call after its first read of spec.parameters: a derivation that
\* raises ends it, and a name of _param_order that is no parameter is a
\* KeyError
PyAfterRead(r, obj, return_type, merges) ==
    IF r.read.st = "raised" THEN PyRaised(r.read.err.kind, merges)
    ELSE IF \E i \in 1..Len(r.param_order) : ~HasKey(Get(r.parameters), r.param_order[i])
    THEN PyRaised("KeyError", merges)
    ELSE PyGenerate(obj, Get(r.parameters), ParamsOf(Get(r.parameters), r.param_order),
                    return_type, merges)

PyLeaves(r) ==
    /\ ReadLeaves(r)
    /\ py_out' = PyAfterRead(r, fd_obj, fd_return_type, Len(fd_merged))

\* the attribute maps merged into the descriptor
PySources ==
    { [PARAMS |-> S("INT a, OUT REAL b, INT lambda=0")],
      [PARAMS |-> S("INT a=1, DEPRECATED d, INOUT REAL c"), NAME |-> S("first")],
      [PARAMS |-> S("OUT INT a, VECTOR c")],
      [PARAMS |-> S("OUT INT a, INT c")],
      [PARAMS |-> S("GRAPH g, VECTOR c")],
      [PARAM_ORDER |-> S("lambda, ...")],
      [PARAM_ORDER |-> S("c, a")],
      [PARAM_ORDER |-> S("a, a")],
      [RETURN |-> S("REAL")] }

\* generate_function(name, output), lines 275-284
GenerateFunctionPython ==
    /\ Len(fd_merged) > 0
    /\ py_gens < MaxGenerates
    /\ PyLeaves(ParametersProperty(fd_parameters, fd_param_order, fd_obj))
    /\ py_gens' = py_gens + 1
    /\ fd_iter' = NotIterated
    /\ UNCHANGED <<fd_obj, fd_flags, fd_ignored_by, fd_return_type, fd_prev,
                   fd_src, fd_merged, fd_was_cached>>
    /\ UNCHANGED NotFdPy

\* a function merged from several sources, generated at any time
InitPy ==
    /\ FdInit /\ PyParked /\ GParked /\ RcParked /\ LxParked /\ PsParked
    /\ PcParked /\ CliParked /\ JobParked
NextPy ==
    \/ \E src \in PySources : UpdateFrom(src)
    \/ GenerateFunctionPython
SpecPy == InitPy /\ [][NextPy]_vars

\* the arguments the header of the function is to have: the parameters that
\* are neither deprecated nor outputs only, in the order PARAM_ORDER gives
ExpectedArguments(parameters, order) ==
    [i \in 1..Len(Appearing(ParamsOf(parameters, order))) |->
        PyName(Appearing(ParamsOf(parameters, order))[i].name)]

\* C30: a `def` header the typed Python generator writes has exactly the
\* parameters that are not deprecated and are IN or INOUT as its arguments,
\* in the order of PARAM_ORDER, with no argument without a default after one
\* with a default; a function it refuses is a single comment and nothing else.
C30_HeaderArguments ==
    /\ (py_out.st = "ok" /\ py_out.merges = Len(fd_merged)) =>
            /\ Len(py_out.args)
                    = Len(ExpectedArguments(Get(fd_parameters), Keys(Get(fd_parameters))))
            /\ Range([i \in 1..Len(py_out.args) |-> py_out.args[i].name])
                    = Range(ExpectedArguments(Get(fd_parameters), Keys(Get(fd_parameters))))
            /\ UpdateParameterOrder(Get(fd_parameters), fd_obj).ok =>
                    [i \in 1..Len(py_out.args) |-> py_out.args[i].name]
                        = ExpectedArguments(Get(fd_parameters),
                                UpdateParameterOrder(Get(fd_parameters), fd_obj).val)
            /\ ~DefaultPrecedesNonDefault(py_out.args)
    /\ py_out.st = "comment" =>
            /\ Len(py_out.written) = 1
            /\ py_out.args = <<>>

====
